---------------------------- MODULE Spec2Model ----------------------------
(***************************************************************************)
(* Model of the resilience layer, the daily orchestrator, the price store  *)
(* and the price extraction of the electrotech price automation:           *)
(*   - CircuitBreaker          (production_utils.py)                       *)
(*   - retry_with_backoff      (production_utils.py)                       *)
(*   - ProductionOrchestrator  (run_all.py)                                *)
(*   - DatabaseManager         (price_intelligence.py)                     *)
(*   - PriceExtractor          (price_intelligence.py)                     *)
(*   - ReportGenerator         (price_intelligence.py)                     *)
(*   - AutomationEngine        (price_intelligence.py)                     *)
(*   - DataValidator           (production_utils.py)                       *)
(*   - MessageCollector        (whatsapp_automation.py)                    *)
(* Nine specifications share the module: SpecCB, SpecRetry, SpecRun,       *)
(* SpecStore, SpecParse, SpecEngine, SpecRerun, SpecQuery and SpecCollect. *)
(* Each one moves the variables of its component and leaves the others     *)
(* untouched.                                                              *)
(***************************************************************************)
EXTENDS Integers, Sequences, FiniteSets, TLC

VARIABLES
    \* ---- CircuitBreaker instance (production_utils.py:115-127)
    failure_threshold,   \* constructor argument
    recovery_timeout,    \* constructor argument, seconds
    expected_exception,  \* constructor argument, an exception class
    failure_count,
    last_failure_time,   \* NoTime models None
    cb_state,
    \* ---- environment and history of the breaker's calls
    now,                 \* the clock datetime.now() reads, seconds
    cb_calls,            \* calls of CircuitBreaker.call so far
    op_calls,            \* invocations of the wrapped operation so far
    op_outcome,          \* what the wrapped operation did in the last call
    call_result,         \* what the last call gave its caller
    entry_state,         \* breaker state when the last call began
    trial,               \* TRUE iff the last call ran as a HALF_OPEN trial
    consec,              \* failures since the last success
    max_run,             \* longest run of failures in a row so far
    total_failures,      \* failures so far
    \* ---- retry_with_backoff: the RetryConfig (production_utils.py:23-37)
    r_max_attempts,
    r_initial_delay,     \* ticks
    r_max_delay,         \* ticks
    r_multiplier,        \* backoff_multiplier, in halves
    r_jitter,            \* BOOLEAN
    \* ---- retry_with_backoff: one run of wrapper (production_utils.py:54-87)
    r_pc,                \* "call", "sleep", "returned", "raised", "interrupted"
    r_attempt,           \* the loop variable
    r_delay,             \* ticks
    r_actual_delay,      \* ticks; the delay about to be slept
    r_last_exception,    \* invocation whose exception is held; 0 models None
    r_result,            \* what the wrapper gave its caller
    \* ---- the wrapped operation and the history of the run
    r_plan,              \* what the operation does on its i-th invocation
    r_invocations,       \* invocations of the operation so far
    r_sleeps,            \* the delays slept so far, in order
    \* ---- ProductionOrchestrator.run and main (run_all.py:336-476)
    o_pc,                \* "vendors", "collect", "extract", "report",
                         \* "deliver", "finally", "exited"
    o_sub,               \* inside a stage's retry wrapper: "call" or "sleep"
    o_attempt,           \* the wrapper's loop variable
    o_exc,               \* exception passing through run: "none" or a class
    workflow_success,
    collect_success,
    message_count,
    summary_path,        \* TRUE iff the local holds a path, FALSE for None
    detailed_path,
    run_result,          \* "none", "True", "False", "raised"
    exit_code,           \* NoExit until sys.exit
    \* ---- ExecutionContext (production_utils.py:430-450)
    ec_status,
    ec_end_time,         \* TRUE iff end_time is set
    ec_errors,
    ec_warnings,
    \* ---- the audit log, the run's log and the output directory
    audit,               \* <<action, status>> entries of AuditLogger
    o_log,               \* <<level, line>> entries logged by run()
    out_summary,         \* a daily_summary_*.txt file exists
    out_detailed,        \* today's detailed report file exists
    \* ---- history of the run
    o_trace,             \* stage attempts and retry sleeps, in order
    completions,         \* calls of mark_complete so far
    interrupted,         \* TRUE once an external interrupt has arrived
    \* ---- DatabaseManager (price_intelligence.py:84-209)
    foreign_keys,        \* TRUE iff the SQLite library enforces FOREIGN KEY
    vendors,             \* the vendors table: vendor_id -> status
    whatsapp_numbers,    \* the whatsapp_number column: vendor_id -> number
    daily_prices,        \* the rows of the daily_prices table, in price_id order
    db_call,             \* <<the arguments of the last insert_price>>, or <<>>
    db_result,           \* what the last insert_price gave its caller
    \* ---- DatabaseManager.get_minimum_prices_today
    q_order,             \* the order in which the query plan scans the rows
    q_calls,             \* calls of get_minimum_prices_today so far
    min_prices,          \* what the last call returned
    \* ---- ReportGenerator.generate_whatsapp_summary
    s_min_prices,        \* the argument of the last call
    s_done,              \* TRUE once generate_whatsapp_summary has returned
    summary,             \* the offers of the summary it returned, in order
    \* ---- PriceExtractor.extract_from_text
    p_text,              \* the text given to extract_from_text
    p_done,              \* TRUE once extract_from_text has returned
    p_result,            \* what it returned
    \* ---- AutomationEngine.process_whatsapp_messages
    files,               \* the *.txt files of the directory: name and content
    e_pc,                \* "idle", "loop", "returned", "raised"
    e_todo,              \* files of the glob the loop has not visited yet
    processed_count,
    e_result,            \* what process_whatsapp_messages returned
    e_exc,               \* the exception that left process_whatsapp_messages
    \* ---- history of the extraction
    e_pending,           \* the files that were pending when the loop began
    e_failed,            \* the files in whose iteration an exception was caught
    e_rows,              \* the rows inserted for each file
    e_runs,              \* the calls of process_whatsapp_messages so far
    e_recorded,          \* the rows inserted for each file over all calls
    \* ---- get_vendor_numbers and MessageCollector.collect_daily_messages
    c_pc,                \* "idle", "loaded", "failed", "collected"
    c_vendors,           \* valid_vendors: vendor_id and normalized number
    c_warnings,          \* the vendors skipped with a warning
    c_messages,          \* what get_unread_messages returned
    c_count,             \* what collect_daily_messages returned
    \* ---- history of the collection
    c_from               \* for each file, the vendor whose chat it came from

cbVars == <<failure_threshold, recovery_timeout, expected_exception,
            failure_count, last_failure_time, cb_state, now, cb_calls,
            op_calls, op_outcome, call_result, entry_state, trial, consec,
            max_run, total_failures>>

retryVars == <<r_max_attempts, r_initial_delay, r_max_delay, r_multiplier,
               r_jitter, r_pc, r_attempt, r_delay, r_actual_delay,
               r_last_exception, r_result, r_plan, r_invocations, r_sleeps>>

runVars == <<o_pc, o_sub, o_attempt, o_exc, workflow_success, collect_success,
             message_count, summary_path, detailed_path, run_result,
             exit_code, ec_status, ec_end_time, ec_errors, ec_warnings, audit,
             o_log, out_summary, out_detailed, o_trace, completions,
             interrupted>>

storeVars == <<foreign_keys, vendors, whatsapp_numbers, daily_prices, db_call,
               db_result>>

queryVars == <<q_order, q_calls, min_prices, s_min_prices, s_done, summary>>

parseVars == <<p_text, p_done, p_result>>

engineVars == <<files, e_pc, e_todo, processed_count, e_result, e_exc,
                e_pending, e_failed, e_rows, e_runs, e_recorded>>

collectVars == <<c_pc, c_vendors, c_warnings, c_messages, c_count, c_from>>

vars == <<cbVars, retryVars, runVars, storeVars, queryVars, parseVars,
          engineVars, collectVars>>

-----------------------------------------------------------------------------
(* Bounds of the model *)
MaxThreshold == 3
MaxTimeout == 2
MaxTime == 4
MaxCalls == 5
MaxDuration == 1
MaxAttempts == 3
MaxMessages == 1
MaxInvalidPhones == 1
MaxRows == 2
MaxQueries == 2
MaxWords == 3
MaxFiles == 2
MaxRuns == 2
MaxUnread == 2

-----------------------------------------------------------------------------
(* CircuitBreaker *)

NoTime == -1

CLOSED == "CLOSED"
OPEN == "OPEN"
HALF_OPEN == "HALF_OPEN"

\* Exception classes an operation may raise, and the classes a breaker may be
\* built to expect.  KeyboardInterrupt derives from BaseException only.
RaisedClasses == {"ValueError", "RuntimeError", "KeyboardInterrupt"}
ExpectedClasses == {"Exception", "ValueError"}

\* isinstance(an exception of class e, c), as `except c` decides it
IsInstance(e, c) ==
    \/ c = e
    \/ c = "Exception" /\ e \in {"ValueError", "RuntimeError"}

Max2(a, b) == IF a >= b THEN a ELSE b
Min2(a, b) == IF a <= b THEN a ELSE b

\* _should_attempt_reset at clock reading t
ShouldAttemptResetAlways(lft, t, timeout) == TRUE
ShouldAttemptReset(lft, t, timeout) ==
    IF lft = NoTime THEN FALSE ELSE (t - lft) >= timeout

\* _on_success: the breaker's fields after it
OnSuccessKeepCount(st, fc) ==
    [state |-> IF st = HALF_OPEN THEN CLOSED ELSE st, failure_count |-> fc]
OnSuccess(st, fc) ==
    [state |-> IF st = HALF_OPEN THEN CLOSED ELSE st, failure_count |-> 0]

\* _on_failure at clock reading t: the breaker's fields after it
OnFailureStrict(st, fc, lft, thr, t) ==
    [failure_count |-> fc + 1,
     last_failure_time |-> t,
     state |-> IF fc + 1 > thr THEN OPEN ELSE st]
OnFailureStaleTime(st, fc, lft, thr, t) ==
    [failure_count |-> fc + 1,
     last_failure_time |-> IF st = HALF_OPEN THEN lft ELSE t,
     state |-> IF fc + 1 >= thr THEN OPEN ELSE st]
OnFailureNoTime(st, fc, lft, thr, t) ==
    [failure_count |-> fc + 1,
     last_failure_time |-> lft,
     state |-> IF fc + 1 >= thr THEN OPEN ELSE st]
OnFailure(st, fc, lft, thr, t) ==
    [failure_count |-> fc + 1,
     last_failure_time |-> t,
     state |-> IF fc + 1 >= thr THEN OPEN ELSE st]

\* what the except clause of call raises after _on_failure left the breaker
\* in `state`: a new Exception carrying str(e), or the exception e itself
PropagatedOriginal(state) == "original"
Propagated(state) == IF state = OPEN THEN "generic_open" ELSE "original"

\* The history variables after a call in which the operation did `res`
\* ("ok", an exception class, or "not_invoked").  A failure is an exception
\* the breaker is built to count; a run of failures ends with a success.
History(res) ==
    LET failed == res \in RaisedClasses /\ IsInstance(res, expected_exception)
        c == IF res = "ok" THEN 0 ELSE IF failed THEN consec + 1 ELSE consec
    IN /\ consec' = c
       /\ max_run' = Max2(max_run, c)
       /\ total_failures' = IF failed THEN total_failures + 1 ELSE total_failures

\* CircuitBreaker.call(func): the operation does `res` and takes d seconds
CBCall(res, d) ==
    /\ cb_calls < MaxCalls
    /\ now + d <= MaxTime
    /\ cb_calls' = cb_calls + 1
    /\ entry_state' = cb_state
    /\ UNCHANGED <<failure_threshold, recovery_timeout, expected_exception>>
    /\ UNCHANGED <<retryVars, runVars, storeVars, queryVars, parseVars,
                   engineVars, collectVars>>
    /\ IF cb_state = OPEN
          /\ ~ShouldAttemptReset(last_failure_time, now, recovery_timeout)
       THEN \* rejected: raise Exception("Circuit breaker is OPEN ...")
            /\ call_result' = "rejected"
            /\ op_outcome' = "not_invoked"
            /\ trial' = FALSE
            /\ History("not_invoked")
            /\ UNCHANGED <<failure_count, last_failure_time, cb_state, now,
                           op_calls>>
       ELSE LET st == IF cb_state = OPEN THEN HALF_OPEN ELSE cb_state
                s == OnSuccess(st, failure_count)
                f == OnFailure(st, failure_count, last_failure_time,
                               failure_threshold, now + d)
            IN /\ op_calls' = op_calls + 1
               /\ op_outcome' = res
               /\ trial' = (st = HALF_OPEN)
               /\ now' = now + d
               /\ History(res)
               /\ IF res = "ok"
                  THEN /\ cb_state' = s.state
                       /\ failure_count' = s.failure_count
                       /\ call_result' = "returned"
                       /\ UNCHANGED last_failure_time
                  ELSE IF IsInstance(res, expected_exception)
                  THEN /\ cb_state' = f.state
                       /\ failure_count' = f.failure_count
                       /\ last_failure_time' = f.last_failure_time
                       /\ call_result' = Propagated(f.state)
                  ELSE \* not caught by `except self.expected_exception`
                       /\ cb_state' = st
                       /\ call_result' = "uncaught"
                       /\ UNCHANGED <<failure_count, last_failure_time>>

\* time passes between calls
Tick ==
    /\ now < MaxTime
    /\ now' = now + 1
    /\ UNCHANGED <<failure_threshold, recovery_timeout, expected_exception,
                   failure_count, last_failure_time, cb_state, cb_calls,
                   op_calls, op_outcome, call_result, entry_state, trial,
                   consec, max_run, total_failures>>
    /\ UNCHANGED <<retryVars, runVars, storeVars, queryVars, parseVars,
                   engineVars, collectVars>>

\* a breaker just constructed (production_utils.py:115-127)
NewBreaker ==
    /\ failure_threshold \in 1..MaxThreshold
    /\ recovery_timeout \in 0..MaxTimeout
    /\ expected_exception \in ExpectedClasses
    /\ failure_count = 0
    /\ last_failure_time = NoTime
    /\ cb_state = CLOSED
    /\ now = 0
    /\ cb_calls = 0
    /\ op_calls = 0
    /\ op_outcome = "not_invoked"
    /\ call_result = "none"
    /\ entry_state = CLOSED
    /\ trial = FALSE
    /\ consec = 0
    /\ max_run = 0
    /\ total_failures = 0

\* the breaker left alone
IdleBreaker ==
    /\ failure_threshold = 5
    /\ recovery_timeout = 60
    /\ expected_exception = "Exception"
    /\ failure_count = 0
    /\ last_failure_time = NoTime
    /\ cb_state = CLOSED
    /\ now = 0
    /\ cb_calls = 0
    /\ op_calls = 0
    /\ op_outcome = "not_invoked"
    /\ call_result = "none"
    /\ entry_state = CLOSED
    /\ trial = FALSE
    /\ consec = 0
    /\ max_run = 0
    /\ total_failures = 0

CallStep == \E res \in {"ok"} \cup RaisedClasses : \E d \in 0..MaxDuration : CBCall(res, d)

NextCB ==
    \/ CallStep
    \/ Tick

-----------------------------------------------------------------------------
(* retry_with_backoff *)

\* Delays are counted in ticks.  A second holds enough ticks for a delay to
\* be scaled by a jitter factor given in tenths and multiplied MaxAttempts
\* times by a multiplier given in halves without a remainder.
TicksPerSecond == 10 * (2 ^ MaxAttempts)

InitialDelays == {1 * TicksPerSecond, 5 * TicksPerSecond}
MaxDelays == {3 * TicksPerSecond, 60 * TicksPerSecond}
\* backoff_multiplier 0.5, 1.0, 2.0, in halves
Multipliers == {1, 2, 4}
\* samples of random.uniform(0.8, 1.2), in tenths
JitterFactors == {8, 10, 12}

OpOutcomes == {"ok", "fail", "interrupt"}

\* `if attempt < config.max_attempts`
AttemptsRemainInclusive(attempt, max) == attempt <= max
AttemptsRemain(attempt, max) == attempt < max

\* `for attempt in range(1, config.max_attempts + 1)`: attempt is in the range
InRangeShort(attempt, max) == attempt < max
InRange(attempt, max) == attempt <= max

\* `min(delay * jitter_factor, config.max_delay)`, j in tenths
ActualDelayNoCap(delay, j, maxDelay) == (delay * j) \div 10
ActualDelay(delay, j, maxDelay) == Min2((delay * j) \div 10, maxDelay)

\* `delay *= config.backoff_multiplier`, m in halves
NextDelayFixed(delay, m) == delay
NextDelay(delay, m) == (delay * m) \div 2

\* the jitter factors the wrapper may draw
Jitters(jitter) == IF jitter THEN JitterFactors ELSE {10}

\* one pass through the loop body: `return func(...)`, or the except clause
\* up to the sleep
RetryCall ==
    /\ r_pc = "call"
    /\ LET i == r_invocations + 1
           res == r_plan[i]
       IN /\ r_invocations' = i
          /\ IF res = "ok"
             THEN /\ r_pc' = "returned"
                  /\ r_result' = <<"value", i>>
                  /\ UNCHANGED <<r_last_exception, r_actual_delay>>
             ELSE IF res = "interrupt"
             THEN \* a BaseException passes `except Exception`
                  /\ r_pc' = "interrupted"
                  /\ r_result' = <<"interrupt", i>>
                  /\ UNCHANGED <<r_last_exception, r_actual_delay>>
             ELSE /\ r_last_exception' = i
                  /\ IF AttemptsRemain(r_attempt, r_max_attempts)
                     THEN /\ \E j \in Jitters(r_jitter) :
                               r_actual_delay' =
                                   ActualDelay(r_delay, j, r_max_delay)
                          /\ r_pc' = "sleep"
                          /\ UNCHANGED r_result
                     ELSE IF InRange(r_attempt + 1, r_max_attempts)
                     THEN \* logged; the loop goes on without a sleep
                          /\ r_pc' = "call"
                          /\ UNCHANGED <<r_result, r_actual_delay>>
                     ELSE \* the loop is over: `raise last_exception`
                          /\ r_pc' = "raised"
                          /\ r_result' = <<"exception", i>>
                          /\ UNCHANGED r_actual_delay
          /\ r_attempt' = IF res = "fail"
                             /\ ~AttemptsRemain(r_attempt, r_max_attempts)
                             /\ InRange(r_attempt + 1, r_max_attempts)
                          THEN r_attempt + 1
                          ELSE r_attempt
    /\ UNCHANGED <<r_max_attempts, r_initial_delay, r_max_delay, r_multiplier,
                   r_jitter, r_delay, r_plan, r_sleeps>>
    /\ UNCHANGED <<cbVars, runVars, storeVars, queryVars, parseVars,
                   engineVars, collectVars>>

\* `time.sleep(actual_delay); delay *= config.backoff_multiplier` and the
\* step of the loop
RetrySleep ==
    /\ r_pc = "sleep"
    /\ r_sleeps' = Append(r_sleeps, r_actual_delay)
    /\ r_delay' = NextDelay(r_delay, r_multiplier)
    /\ r_attempt' = r_attempt + 1
    /\ IF InRange(r_attempt + 1, r_max_attempts)
       THEN r_pc' = "call" /\ UNCHANGED r_result
       ELSE /\ r_pc' = "raised"
            /\ r_result' = <<"exception", r_last_exception>>
    /\ UNCHANGED <<r_max_attempts, r_initial_delay, r_max_delay, r_multiplier,
                   r_jitter, r_actual_delay, r_last_exception, r_plan,
                   r_invocations>>
    /\ UNCHANGED <<cbVars, runVars, storeVars, queryVars, parseVars,
                   engineVars, collectVars>>

\* an interrupt arrives during time.sleep: KeyboardInterrupt leaves the wrapper
RetrySleepInterrupted ==
    /\ r_pc = "sleep"
    /\ r_pc' = "interrupted"
    /\ r_result' = <<"interrupt", 0>>
    /\ UNCHANGED <<r_max_attempts, r_initial_delay, r_max_delay, r_multiplier,
                   r_jitter, r_attempt, r_delay, r_actual_delay,
                   r_last_exception, r_plan, r_invocations, r_sleeps>>
    /\ UNCHANGED <<cbVars, runVars, storeVars, queryVars, parseVars,
                   engineVars, collectVars>>

\* wrapper entered: `last_exception = None; delay = config.initial_delay`
RetryEntered ==
    /\ r_pc = "call"
    /\ r_attempt = 1
    /\ r_delay = r_initial_delay
    /\ r_actual_delay = 0
    /\ r_last_exception = 0
    /\ r_result = <<"none", 0>>
    /\ r_invocations = 0
    /\ r_sleeps = <<>>

\* the wrapper left alone
IdleRetry ==
    /\ r_max_attempts = 3
    /\ r_initial_delay = 1 * TicksPerSecond
    /\ r_max_delay = 60 * TicksPerSecond
    /\ r_multiplier = 4
    /\ r_jitter = TRUE
    /\ r_plan = [i \in 1..MaxAttempts |-> "ok"]
    /\ RetryEntered

-----------------------------------------------------------------------------
(* DatabaseManager: the vendors and daily_prices tables *)

\* Python's None as an argument
NoValue == "None"

\* the vendor ids a vendors table may hold, and the status column
VendorIds == {"V001", "V002"}
Statuses == {"active", "inactive"}

\* prices are floats with at most two decimals (`(?:\.\d{2})?`); the model
\* counts them in hundredths of a rupee
PerRupee == 100

\* the values insert_price is called with
VendorArgs == VendorIds \cup {NoValue}
Categories == {"Inverter", "Battery"}
Models == {"Growatt", "Tubular"}
Prices == {100, 200}

\* the dates of the rows, oldest first; `datetime.now().date()` is the last
Dates == <<"2026-10-31", "2026-11-01">>
Today == Dates[Len(Dates)]

\* the vendors tables: any subset of the ids, each with a status
VendorTables == UNION {[D -> Statuses] : D \in SUBSET VendorIds}

\* `vendor_id TEXT NOT NULL`
NotNull(v) == v # NoValue

\* `FOREIGN KEY (vendor_id) REFERENCES vendors (vendor_id)`: checked only by
\* a library that enforces foreign keys; the connection sets no PRAGMA
ForeignKey(enforced, table, v) == enforced => v \in DOMAIN table

\* the constraints the INSERT of insert_price is checked against
InsertAllowed(enforced, table, v) ==
    NotNull(v) /\ ForeignKey(enforced, table, v)

\* the row the INSERT writes: company and unit are the defaults of
\* insert_price where the caller gives none
PriceRow(vendor_id, category, model, price) ==
    [date |-> Today, vendor_id |-> vendor_id, product_category |-> category,
     product_model |-> model, product_company |-> "", price |-> price,
     unit |-> "per piece"]

\* DatabaseManager.insert_price
InsertPrice(vendor_id, category, model, price) ==
    /\ Len(daily_prices) < MaxRows
    /\ db_call' = <<PriceRow(vendor_id, category, model, price)>>
    /\ IF InsertAllowed(foreign_keys, vendors, vendor_id)
       THEN /\ daily_prices' =
                  Append(daily_prices,
                         PriceRow(vendor_id, category, model, price))
            /\ db_result' = "ok"
       ELSE /\ db_result' = "IntegrityError"
            /\ UNCHANGED daily_prices
    /\ UNCHANGED <<foreign_keys, vendors, whatsapp_numbers>>
    /\ UNCHANGED <<cbVars, retryVars, runVars, queryVars, parseVars,
                   engineVars, collectVars>>

\* a database just opened by _initialize_db on a vendors table
StoreOpened ==
    /\ daily_prices = <<>>
    /\ db_call = <<>>
    /\ db_result = "none"

\* whatsapp numbers as setup_sample_data stores them, with the "+"
SampleNumbers ==
    [v \in VendorIds |-> IF v = "V001" THEN "+923001234567"
                                       ELSE "+923219876543"]

\* the store left alone
IdleStore ==
    /\ foreign_keys = FALSE
    /\ vendors = [v \in VendorIds |-> "active"]
    /\ whatsapp_numbers = SampleNumbers
    /\ StoreOpened

-----------------------------------------------------------------------------
(* DatabaseManager.get_minimum_prices_today *)

\* the (category, model, company) triples of the rows, and the units
Products == {<<"Inverter", "Growatt", "">>,
             <<"Inverter", "Growatt", "Growatt Pakistan">>,
             <<"Battery", "Tubular", "">>}
Units == {"per piece", "per watt"}

\* the rows a daily_prices table may hold
TableRows ==
    {[date |-> Dates[d], vendor_id |-> v, product_category |-> p[1],
      product_model |-> p[2], product_company |-> p[3], price |-> x,
      unit |-> u] :
        d \in 1..Len(Dates), v \in VendorIds, p \in Products, x \in Prices,
        u \in Units}

\* the place of a date in Dates
DateIdx(date) == CHOOSE d \in 1..Len(Dates) : Dates[d] = date

\* the daily_prices tables: rows in price_id order, which is the order of
\* their dates
PriceTables ==
    {t \in UNION {[1..n -> TableRows] : n \in 0..MaxRows} :
        \A i, j \in 1..Len(t) :
            i < j => DateIdx(t[i].date) <= DateIdx(t[j].date)}

\* the orders in which a query plan may scan n rows
Orders(n) ==
    {o \in [1..n -> 1..n] : \A i, j \in 1..n : o[i] = o[j] => i = j}

\* BINARY collation of the category names, as ORDER BY compares them
CategoryOrder == <<"Battery", "Inverter", "Solar Panel">>
CategoryRank(c) == CHOOSE i \in 1..Len(CategoryOrder) : CategoryOrder[i] = c

\* `FROM daily_prices dp JOIN vendors v ON dp.vendor_id = v.vendor_id
\*  WHERE dp.date = ?`: the places of the rows the join yields, as scanned
Joined(rows, table, date, order) ==
    LET Keep(i) == /\ rows[i].date = date
                   /\ rows[i].vendor_id \in DOMAIN table
    IN SelectSeq(order, Keep)

\* `GROUP BY dp.product_category, dp.product_model, dp.product_company`
GroupKey(r) == <<r.product_category, r.product_model, r.product_company>>

\* the step of SQLite's min(): a scanned price replaces the best so far
BetterAlways(price, best) == TRUE
BetterOrEqual(price, best) == price <= best
Better(price, best) == price < best

\* the row of a group that gives the bare columns (unit and the columns of
\* v): the row that set the minimum during the scan; b is the place of the
\* best row so far, 0 before the first
RECURSIVE BareRowFrom(_, _, _, _, _)
BareRowFrom(rows, scan, key, k, b) ==
    IF k > Len(scan)
    THEN b
    ELSE LET i == scan[k]
         IN IF /\ GroupKey(rows[i]) = key
               /\ (b = 0 \/ Better(rows[i].price, rows[b].price))
            THEN BareRowFrom(rows, scan, key, k + 1, i)
            ELSE BareRowFrom(rows, scan, key, k + 1, b)

\* `MIN(dp.price)` of a group
MinPrice(rows, scan, key) ==
    LET prices == {rows[scan[k]].price :
                      k \in {j \in 1..Len(scan) : GroupKey(rows[scan[j]]) = key}}
    IN CHOOSE m \in prices : \A x \in prices : m <= x

\* the result row of a group; vendor_name, mobile and vendor_type are the
\* columns of the vendors row of vendor_id
Quote(rows, scan, key) ==
    LET b == BareRowFrom(rows, scan, key, 1, 0)
    IN [product_category |-> key[1], product_model |-> key[2],
        product_company |-> key[3],
        min_price |-> MinPrice(rows, scan, key),
        unit |-> rows[b].unit, vendor_id |-> rows[b].vendor_id]

\* `ORDER BY dp.product_category, min_price`
OrderedByCategoryOnly(q) ==
    \A i, j \in 1..Len(q) :
        i < j => CategoryRank(q[i].product_category)
                    <= CategoryRank(q[j].product_category)
Ordered(q) ==
    \A i, j \in 1..Len(q) :
        i < j =>
            \/ CategoryRank(q[i].product_category)
                  < CategoryRank(q[j].product_category)
            \/ /\ q[i].product_category = q[j].product_category
               /\ q[i].min_price <= q[j].min_price

\* what the query may return: the result rows of the groups, in an order
\* ORDER BY allows
QueryResults(rows, table, date, order) ==
    LET scan == Joined(rows, table, date, order)
        keys == {GroupKey(rows[scan[k]]) : k \in 1..Len(scan)}
        quotes == {Quote(rows, scan, key) : key \in keys}
        n == Cardinality(quotes)
    IN {q \in [1..n -> quotes] :
           /\ \A i, j \in 1..n : q[i] = q[j] => i = j
           /\ Ordered(q)}

\* DatabaseManager.get_minimum_prices_today
GetMinimumPricesToday ==
    /\ q_calls < MaxQueries
    /\ \E q \in QueryResults(daily_prices, vendors, Today, q_order) :
          min_prices' = q
    /\ q_calls' = q_calls + 1
    /\ UNCHANGED <<q_order, s_min_prices, s_done, summary>>
    /\ UNCHANGED <<cbVars, retryVars, runVars, storeVars, parseVars,
                   engineVars, collectVars>>

\* ReportGenerator.generate_whatsapp_summary: `by_category`, the quotes of
\* each category in the order of min_prices, the categories in the order of
\* their first quote
RECURSIVE GroupByCategory(_, _, _)
GroupByCategory(q, i, by_category) ==
    IF i > Len(q)
    THEN by_category
    ELSE LET cat == q[i].product_category
             at == {k \in 1..Len(by_category) : by_category[k].category = cat}
         IN IF at = {}
            THEN GroupByCategory(q, i + 1,
                    Append(by_category, [category |-> cat, items |-> <<q[i]>>]))
            ELSE LET k == CHOOSE k \in at : TRUE
                 IN GroupByCategory(q, i + 1,
                       [by_category EXCEPT ![k].items = Append(@, q[i])])

\* `item = items[0]  # Lowest in category`
LowestOfLast(items) == items[Len(items)]
LowestOf(items) == items[1]

\* the lines of the summary for one category: `int(item['min_price'])` is
\* the price in whole rupees; vendor_name is that of the vendors row of
\* vendor_id
Offer(category, item) ==
    [category |-> category,
     price |-> item.min_price \div PerRupee,
     vendor_id |-> item.vendor_id,
     product_model |-> item.product_model,
     product_company |-> item.product_company]

\* the offers of the summary, one per category of by_category
WhatsappSummary(q) ==
    LET by_category == GroupByCategory(q, 1, <<>>)
    IN [k \in 1..Len(by_category) |->
          Offer(by_category[k].category, LowestOf(by_category[k].items))]

\* generate_daily_report: generate_whatsapp_summary on the result of the
\* query
GenerateWhatsappSummary ==
    /\ q_calls >= 1
    /\ ~s_done
    /\ s_min_prices' = min_prices
    /\ summary' = WhatsappSummary(min_prices)
    /\ s_done' = TRUE
    /\ UNCHANGED <<q_order, q_calls, min_prices>>
    /\ UNCHANGED <<cbVars, retryVars, runVars, storeVars, parseVars,
                   engineVars, collectVars>>

\* no query made yet
IdleQuery ==
    /\ q_order = <<>>
    /\ q_calls = 0
    /\ min_prices = <<>>
    /\ s_min_prices = <<>>
    /\ s_done = FALSE
    /\ summary = <<>>

-----------------------------------------------------------------------------
(* PriceExtractor: a text is a sequence of words separated by blanks *)

\* the words of the texts; a currency word, "price:" and "per" occur in them
\* only as whole words, and a category or model keyword only as a whole word
Words == {"Inverter", "Growatt", "5KW", "Price:", "Rs", "65,000", "per",
          "piece", "battery", "0", "450.50", "hello"}

\* the sample message of `--test`, on one line
SampleText == <<"Inverter", "Growatt", "5KW", "Price:", "Rs", "65,000", "per",
                "piece">>

\* str.lower() of a word
Lower(word) ==
    CASE word = "Inverter" -> "inverter"
      [] word = "Growatt" -> "growatt"
      [] word = "5KW" -> "5kw"
      [] word = "Price:" -> "price:"
      [] word = "Rs" -> "rs"
      [] OTHER -> word

\* the characters of a lower-case word that holds a digit; <<>> for the
\* words that hold none
Chars(word) ==
    CASE word = "5kw" -> <<"5", "k", "w">>
      [] word = "65,000" -> <<"6", "5", ",", "0", "0", "0">>
      [] word = "0" -> <<"0">>
      [] word = "450.50" -> <<"4", "5", "0", ".", "5", "0">>
      [] OTHER -> <<>>

\* the string made of the characters of a wattage, `f"{...}W"`
WattageName(digits) ==
    CASE digits = <<"5">> -> "5W"
      [] digits = <<"0">> -> "0W"
      [] OTHER -> "W"

Digits == {"0", "1", "2", "3", "4", "5", "6", "7", "8", "9"}

DigitValue(c) ==
    CASE c = "0" -> 0 [] c = "1" -> 1 [] c = "2" -> 2 [] c = "3" -> 3
      [] c = "4" -> 4 [] c = "5" -> 5 [] c = "6" -> 6 [] c = "7" -> 7
      [] c = "8" -> 8 [] c = "9" -> 9

\* int() of a run of digits; 0 for the empty run
RECURSIVE IntValue(_)
IntValue(ds) ==
    IF ds = <<>>
    THEN 0
    ELSE 10 * IntValue(SubSeq(ds, 1, Len(ds) - 1)) + DigitValue(ds[Len(ds)])

IsDigit(c) == c \in Digits

\* `\d+`: the end of the longest run of digits that begins at i; i - 1 if
\* there is none
RECURSIVE DigitRunEnd(_, _)
DigitRunEnd(cs, i) ==
    IF i <= Len(cs) /\ IsDigit(cs[i]) THEN DigitRunEnd(cs, i + 1) ELSE i - 1

\* `(?:,\d{3})*`: the end of the longest run of comma groups after place e
RECURSIVE CommaGroupsEnd(_, _)
CommaGroupsEnd(cs, e) ==
    IF /\ e + 4 <= Len(cs)
       /\ cs[e + 1] = ","
       /\ IsDigit(cs[e + 2]) /\ IsDigit(cs[e + 3]) /\ IsDigit(cs[e + 4])
    THEN CommaGroupsEnd(cs, e + 4)
    ELSE e

\* `(?:\.\d{2})?` after place e
DecimalsEnd(cs, e) ==
    IF e + 3 <= Len(cs) /\ cs[e + 1] = "." /\ IsDigit(cs[e + 2])
                        /\ IsDigit(cs[e + 3])
    THEN e + 3
    ELSE e

\* the greedy match of `\d+(?:,\d{3})*` and, with decimals, `(?:\.\d{2})?`
\* that begins at the first character: its end, 0 if there is none
LeadingNumeralEnd(cs, decimals) ==
    LET d == DigitRunEnd(cs, 1)
    IN IF d = 0
       THEN 0
       ELSE IF decimals
            THEN DecimalsEnd(cs, CommaGroupsEnd(cs, d))
            ELSE CommaGroupsEnd(cs, d)

\* cs[i..n] is a match of `\d+(?:,\d{3})*`
RECURSIVE IsGrouped(_, _, _)
IsGrouped(cs, i, n) ==
    \/ i <= n /\ DigitRunEnd(cs, i) >= n
    \/ /\ n - 4 >= i
       /\ cs[n - 3] = ","
       /\ IsDigit(cs[n - 2]) /\ IsDigit(cs[n - 1]) /\ IsDigit(cs[n])
       /\ IsGrouped(cs, i, n - 4)

\* cs[i..Len(cs)] is a match of the numeral pattern, so that the next part
\* of the pattern can begin at the next word
EndsAsNumeral(cs, i, decimals) ==
    \/ IsGrouped(cs, i, Len(cs))
    \/ /\ decimals
       /\ Len(cs) - 3 >= i
       /\ cs[Len(cs) - 2] = "."
       /\ IsDigit(cs[Len(cs) - 1]) /\ IsDigit(cs[Len(cs)])
       /\ IsGrouped(cs, i, Len(cs) - 3)

\* the leftmost place from which the numeral pattern matches up to the end
\* of the word; 0 if there is none
TrailingNumeralStart(cs, decimals) ==
    IF \E i \in 1..Len(cs) : EndsAsNumeral(cs, i, decimals)
    THEN CHOOSE i \in 1..Len(cs) :
            /\ EndsAsNumeral(cs, i, decimals)
            /\ \A j \in 1..(i - 1) : ~EndsAsNumeral(cs, j, decimals)
    ELSE 0

\* `(?:rs\.?|rupees?|pkr)`
CurrencyWords == {"rs", "rs.", "rupee", "rupees", "pkr"}

\* PRICE_PATTERNS[p] matched on the words i and i + 1 of the lower-case
\* text: the characters of its group, <<>> if it does not match there
MatchAt(p, lower, i) ==
    LET a == lower[i]
        b == lower[i + 1]
    IN CASE p = 1 ->
              IF a \in CurrencyWords
              THEN SubSeq(Chars(b), 1, LeadingNumeralEnd(Chars(b), TRUE))
              ELSE <<>>
         [] p = 2 ->
              IF b \in CurrencyWords /\ TrailingNumeralStart(Chars(a), TRUE) > 0
              THEN SubSeq(Chars(a), TrailingNumeralStart(Chars(a), TRUE),
                          Len(Chars(a)))
              ELSE <<>>
         [] p = 3 ->
              IF a \in {"price", "price:"}
              THEN SubSeq(Chars(b), 1, LeadingNumeralEnd(Chars(b), FALSE))
              ELSE <<>>
         [] p = 4 ->
              IF b = "per" /\ TrailingNumeralStart(Chars(a), FALSE) > 0
              THEN SubSeq(Chars(a), TrailingNumeralStart(Chars(a), FALSE),
                          Len(Chars(a)))
              ELSE <<>>

\* re.findall(PRICE_PATTERNS[p], text_lower): the groups, from left to right
RECURSIVE FindAllFrom(_, _, _)
FindAllFrom(p, lower, i) ==
    IF i >= Len(lower)
    THEN <<>>
    ELSE IF MatchAt(p, lower, i) = <<>>
         THEN FindAllFrom(p, lower, i + 1)
         ELSE <<MatchAt(p, lower, i)>> \o FindAllFrom(p, lower, i + 1)

FindAll(p, lower) == FindAllFrom(p, lower, 1)

\* float() of a string of digits and dots, in hundredths: ok is FALSE where
\* Python raises ValueError
ParseFloat(cleaned) ==
    LET dots == {i \in 1..Len(cleaned) : cleaned[i] = "."}
        digits == {i \in 1..Len(cleaned) : IsDigit(cleaned[i])}
        p == IF dots = {} THEN Len(cleaned) + 1 ELSE CHOOSE i \in dots : TRUE
        whole == SubSeq(cleaned, 1, p - 1)
        frac == SubSeq(cleaned, p + 1, Len(cleaned))
        hundredths == IF Len(frac) = 0 THEN 0
                      ELSE IF Len(frac) = 1 THEN 10 * DigitValue(frac[1])
                      ELSE IntValue(SubSeq(frac, 1, 2))
    IN IF Cardinality(dots) > 1 \/ digits = {}
       THEN [ok |-> FALSE, value |-> 0]
       ELSE [ok |-> TRUE, value |-> IntValue(whole) * PerRupee + hundredths]

\* `re.sub(r'[^\d.]', '', ...)`
KeepDigitsAndDots(cs) ==
    LET Keep(c) == IsDigit(c) \/ c = "."
    IN SelectSeq(cs, Keep)

\* PriceExtractor._clean_price
CleanPrice(cs) ==
    LET f == ParseFloat(KeepDigitsAndDots(cs))
    IN IF f.ok THEN f.value ELSE 0

\* the lists of the class, in their order
CATEGORIES ==
    << [name |-> "inverter", title |-> "Inverter",
        keywords |-> <<"inverter", "ups", "power backup">>],
       [name |-> "solar_panel", title |-> "Solar Panel",
        keywords |-> <<"solar panel", "solar", "panel", "photovoltaic", "pv">>],
       [name |-> "battery", title |-> "Battery",
        keywords |-> <<"battery", "batteries", "tubular", "lithium", "gel">>] >>

INVERTER_MODELS ==
    << [name |-> "growatt", title |-> "Growatt"],
       [name |-> "goodwe", title |-> "Goodwe"],
       [name |-> "fronius", title |-> "Fronius"],
       [name |-> "sma", title |-> "Sma"],
       [name |-> "huawei", title |-> "Huawei"],
       [name |-> "solis", title |-> "Solis"] >>

PANEL_MODELS ==
    << [name |-> "longi", title |-> "Longi"],
       [name |-> "jinko", title |-> "Jinko"],
       [name |-> "ja solar", title |-> "Ja Solar"],
       [name |-> "risen", title |-> "Risen"],
       [name |-> "trina", title |-> "Trina"] >>

BATTERY_MODELS ==
    << [name |-> "tesla", title |-> "Tesla"],
       [name |-> "pylontech", title |-> "Pylontech"],
       [name |-> "byd", title |-> "Byd"],
       [name |-> "tubular", title |-> "Tubular"],
       [name |-> "lithium", title |-> "Lithium"] >>

\* `keyword in text`, for a keyword that occurs only as a whole word
Contains(lower, keyword) == \E i \in 1..Len(lower) : lower[i] = keyword

\* the first of the places of a sequence that a loop stops at; 0 if there
\* is none
FirstPlace(places) ==
    IF places = {}
    THEN 0
    ELSE CHOOSE i \in places : \A j \in places : i <= j

\* PriceExtractor._detect_category; NoValue where the code returns None
DetectCategoryGeneric(lower) ==
    LET Hit(c) == \E k \in 1..Len(c.keywords) : Contains(lower, c.keywords[k])
        at == FirstPlace({i \in 1..Len(CATEGORIES) : Hit(CATEGORIES[i])})
    IN IF at = 0 THEN "Generic" ELSE CATEGORIES[at].title
DetectCategory(lower) ==
    LET Hit(c) == \E k \in 1..Len(c.keywords) : Contains(lower, c.keywords[k])
        at == FirstPlace({i \in 1..Len(CATEGORIES) : Hit(CATEGORIES[i])})
    IN IF at = 0 THEN NoValue ELSE CATEGORIES[at].title

\* `re.search(r'(\d+)\s*(?:kw|w|watt)', text)`: the digits of the first
\* word that holds a wattage, <<>> if there is none
WattageOf(word) ==
    LET cs == Chars(word)
        Fits(i) == /\ IsDigit(cs[i])
                   /\ LET e == DigitRunEnd(cs, i)
                      IN \/ e + 1 <= Len(cs) /\ cs[e + 1] = "w"
                         \/ e + 2 <= Len(cs) /\ cs[e + 1] = "k"
                                             /\ cs[e + 2] = "w"
    IN IF \E i \in 1..Len(cs) : Fits(i)
       THEN LET i == CHOOSE i \in 1..Len(cs) :
                        Fits(i) /\ \A j \in 1..(i - 1) : ~Fits(j)
            IN SubSeq(cs, i, DigitRunEnd(cs, i))
       ELSE <<>>

\* PriceExtractor._detect_model
DetectModel(lower, category) ==
    LET models == IF category = "Inverter" THEN INVERTER_MODELS
                  ELSE IF category = "Solar Panel" THEN PANEL_MODELS
                  ELSE IF category = "Battery" THEN BATTERY_MODELS
                  ELSE <<>>
        Named(m) == Contains(lower, m.name)
        HasWattage(w) == WattageOf(w) # <<>>
        at == FirstPlace({i \in 1..Len(models) : Named(models[i])})
        w == FirstPlace({i \in 1..Len(lower) : HasWattage(lower[i])})
    IN IF at # 0 THEN models[at].title
       ELSE IF w # 0 THEN WattageName(WattageOf(lower[w]))
       ELSE "Generic"

\* the prices list of extract_from_text: the cleaned groups of every pattern
AllPrices(lower) ==
    LET found == FindAll(1, lower) \o FindAll(2, lower) \o FindAll(3, lower)
                 \o FindAll(4, lower)
    IN [i \in 1..Len(found) |-> CleanPrice(found[i])]

\* PriceExtractor.extract_from_text (raw_text is left out of the results)
ExtractFromText(text) ==
    LET lower == [i \in 1..Len(text) |-> Lower(text[i])]
        prices == AllPrices(lower)
        category == DetectCategory(lower)
    IN IF prices = <<>>
       THEN <<>>
       ELSE IF category = NoValue
            THEN <<>>
            ELSE [i \in 1..Len(prices) |->
                    [category |-> category,
                     model |-> DetectModel(lower, category),
                     price |-> prices[i],
                     unit |-> "per piece"]]

\* the texts extract_from_text is given
Texts == UNION {[1..n -> Words] : n \in 0..MaxWords} \cup {SampleText}

\* one call of extract_from_text
ExtractCall ==
    /\ ~p_done
    /\ p_result' = ExtractFromText(p_text)
    /\ p_done' = TRUE
    /\ UNCHANGED p_text
    /\ UNCHANGED <<cbVars, retryVars, runVars, storeVars, queryVars,
                   engineVars, collectVars>>

\* the extractor left alone
IdleParse ==
    /\ p_text = <<>>
    /\ p_done = FALSE
    /\ p_result = <<>>

-----------------------------------------------------------------------------
(* AutomationEngine.process_whatsapp_messages *)

NoCount == -1

\* the whatsapp_number column of the vendors table
WhatsAppOf(v) == whatsapp_numbers[v]

\* DatabaseManager.get_vendor_by_whatsapp: the vendor_id of the row found,
\* NoValue where the code returns None
GetVendorByWhatsapp(table, number) ==
    LET found == {v \in DOMAIN table :
                     WhatsAppOf(v) = number /\ table[v] = "active"}
    IN IF found = {} THEN NoValue ELSE CHOOSE v \in found : TRUE

\* the senders of the messages; the last one is no vendor's number
Senders == {"+923001234567", "+923219876543", "+923330000000"}

\* the stems of the file names, split on "_": YYYYMMDD_HHMM_<number>, and
\* a file that is not named so
Stems == {<<"20261101", "0900", s>> : s \in Senders} \cup {<<"notes">>}

\* the contents of the files
FileTexts == {SampleText, <<"Inverter", "Rs", "0">>, <<"hello">>}

\* the directories: files of different names
Directories ==
    {d \in UNION {[1..n -> [stem : Stems, text : FileTexts]] :
                     n \in 0..MaxFiles} :
        \A i, j \in 1..Len(d) : d[i].stem = d[j].stem => i = j}

\* `f"processed_{text_file.name}"`, split on "_"
ProcessedStem(stem) == <<"processed">> \o stem

\* the file has not been marked as processed
IsPending(file) == file.stem[1] # "processed"

\* what may go wrong in one iteration: reading the file, the k-th
\* insert_price, or the rename, raising an exception of class cls
NoFault == [at |-> "none", k |-> 0, cls |-> "none"]
Faults ==
    {NoFault}
    \cup {[at |-> a, k |-> 0, cls |-> c] :
             a \in {"read", "rename"},
             c \in {"RuntimeError", "KeyboardInterrupt"}}
    \cup {[at |-> "insert", k |-> k, cls |-> c] :
             k \in 1..2, c \in {"RuntimeError", "KeyboardInterrupt"}}

\* `except Exception` inside the loop
CaughtPerFileNever(cls) == FALSE
CaughtPerFile(cls) == IsInstance(cls, "Exception")

\* the row insert_price is asked to write for an extracted item
ItemRow(vendor_id, item) ==
    [PriceRow(vendor_id, item.category, item.model, item.price)
        EXCEPT !.unit = item.unit]

\* entry of process_whatsapp_messages up to `text_dir.glob("*.txt")`
BeginProcess ==
    /\ e_pc = "idle"
    /\ e_pc' = "loop"
    /\ e_todo' = DOMAIN files
    /\ processed_count' = 0
    /\ e_pending' = {f \in DOMAIN files : IsPending(files[f])}
    /\ e_failed' = {}
    /\ e_rows' = [f \in DOMAIN files |-> <<>>]
    /\ e_runs' = 1
    /\ e_recorded' = [f \in DOMAIN files |-> <<>>]
    /\ UNCHANGED <<files, e_result, e_exc>>
    /\ UNCHANGED <<cbVars, retryVars, runVars, storeVars, queryVars,
                   parseVars, collectVars>>

\* entry of a later call of process_whatsapp_messages, on the directory and
\* the database the earlier calls left
BeginAgain ==
    /\ e_pc \in {"returned", "raised"}
    /\ e_runs < MaxRuns
    /\ e_pc' = "loop"
    /\ e_todo' = DOMAIN files
    /\ processed_count' = 0
    /\ e_result' = NoCount
    /\ e_exc' = "none"
    /\ e_pending' = {f \in DOMAIN files : IsPending(files[f])}
    /\ e_failed' = {}
    /\ e_rows' = [f \in DOMAIN files |-> <<>>]
    /\ e_runs' = e_runs + 1
    /\ UNCHANGED <<files, e_recorded>>
    /\ UNCHANGED <<cbVars, retryVars, runVars, storeVars, queryVars,
                   parseVars, collectVars>>

\* the vendor the file name leads to: NoValue if the stem has fewer than
\* three parts or no active vendor has the number
VendorOfFile(table, file) ==
    IF Len(file.stem) >= 3
    THEN GetVendorByWhatsapp(table, file.stem[3])
    ELSE NoValue

\* the items extracted from the file, if the iteration gets that far
ItemsOfFile(vendor, file, fault) ==
    IF fault.at # "read" /\ vendor # NoValue
    THEN ExtractFromText(file.text)
    ELSE <<>>

\* the rows insert_price is asked to write, one per item
RowsOfItems(vendor, items) ==
    [k \in 1..Len(items) |-> ItemRow(vendor, items[k])]

\* how one iteration ends: the rows it inserted, whether it renamed the
\* file, the exception it raised, and the last insert_price call
Outcome(enforced, table, vendor, rows, fault) ==
    LET reaches == fault.at # "read" /\ vendor # NoValue
        refused == /\ reaches
                   /\ rows # <<>>
                   /\ ~InsertAllowed(enforced, table, vendor)
        broken == reaches /\ fault.at = "insert" /\ fault.k <= Len(rows)
        n == IF refused THEN 0
             ELSE IF broken THEN fault.k - 1
             ELSE Len(rows)
        raised == IF fault.at = "read" THEN fault.cls
                  ELSE IF refused THEN "RuntimeError"
                  ELSE IF broken THEN fault.cls
                  ELSE IF reaches /\ fault.at = "rename" THEN fault.cls
                  ELSE "none"
    IN [inserted |-> SubSeq(rows, 1, n),
        renamed |-> reaches /\ raised = "none",
        raised |-> raised,
        call |-> IF refused \/ broken THEN <<rows[n + 1]>>
                 ELSE IF n > 0 THEN <<rows[n]>>
                 ELSE <<>>,
        result |-> IF refused THEN "IntegrityError"
                   ELSE IF broken THEN "raised"
                   ELSE "ok"]

OutcomeForVendor(enforced, table, file, fault, vendor) ==
    Outcome(enforced, table, vendor,
            RowsOfItems(vendor, ItemsOfFile(vendor, file, fault)), fault)

\* the body of the loop on one file
Iteration(enforced, table, file, fault) ==
    OutcomeForVendor(enforced, table, file, fault, VendorOfFile(table, file))

\* the state after an iteration on file f that ended as `out`
AfterIteration(f, out) ==
    /\ daily_prices' = daily_prices \o out.inserted
    /\ processed_count' = processed_count + Len(out.inserted)
    /\ e_rows' = [e_rows EXCEPT ![f] = out.inserted]
    /\ e_recorded' = [e_recorded EXCEPT ![f] = @ \o out.inserted]
    /\ IF out.call = <<>>
       THEN UNCHANGED <<db_call, db_result>>
       ELSE db_call' = out.call /\ db_result' = out.result
    /\ files' = IF out.renamed
                THEN [files EXCEPT ![f].stem = ProcessedStem(@)]
                ELSE files
    /\ IF out.raised = "none"
       THEN UNCHANGED <<e_pc, e_exc, e_failed>>
       ELSE IF CaughtPerFile(out.raised)
            THEN /\ e_failed' = e_failed \cup {f}
                 /\ UNCHANGED <<e_pc, e_exc>>
            ELSE /\ e_pc' = "raised"
                 /\ e_exc' = out.raised
                 /\ UNCHANGED e_failed

\* one iteration of the loop, on file f
ProcessFile(f, fault) ==
    /\ e_pc = "loop"
    /\ f \in e_todo
    /\ AfterIteration(f, Iteration(foreign_keys, vendors, files[f], fault))
    /\ e_todo' = e_todo \ {f}
    /\ UNCHANGED <<foreign_keys, vendors, whatsapp_numbers, e_result,
                   e_pending, e_runs>>
    /\ UNCHANGED <<cbVars, retryVars, runVars, queryVars, parseVars,
                   collectVars>>

\* the end of the loop: `return processed_count`
ReturnCount ==
    /\ e_pc = "loop"
    /\ e_todo = {}
    /\ e_pc' = "returned"
    /\ e_result' = processed_count
    /\ UNCHANGED <<files, e_todo, processed_count, e_exc, e_pending,
                   e_failed, e_rows, e_runs, e_recorded>>
    /\ UNCHANGED <<cbVars, retryVars, runVars, storeVars, queryVars,
                   parseVars, collectVars>>

\* the engine left alone, on an empty directory
IdleEngine ==
    /\ files = <<>>
    /\ e_pc = "idle"
    /\ e_todo = {}
    /\ processed_count = 0
    /\ e_result = NoCount
    /\ e_exc = "none"
    /\ e_pending = {}
    /\ e_failed = {}
    /\ e_rows = <<>>
    /\ e_runs = 0
    /\ e_recorded = <<>>

-----------------------------------------------------------------------------
(* DataValidator, ProductionOrchestrator.get_vendor_numbers and
   MessageCollector.collect_daily_messages *)

\* the subscriber digits of the two sample numbers
Subscriber1 == <<"3", "0", "0", "1", "2", "3", "4", "5", "6", "7">>
Subscriber2 == <<"3", "2", "1", "9", "8", "7", "6", "5", "4", "3">>

\* the numbers and name tokens that occur, and their characters
PhoneNumbers ==
    {"+923001234567", "923001234567", "+92-300-1234567", "0300-1234567",
     "+923219876543", "923219876543", "+92 321 9876543"}

PhoneChars(number) ==
    CASE number = "+923001234567" -> <<"+", "9", "2">> \o Subscriber1
      [] number = "923001234567" -> <<"9", "2">> \o Subscriber1
      [] number = "+92-300-1234567" ->
            <<"+", "9", "2", "-">> \o SubSeq(Subscriber1, 1, 3) \o <<"-">>
                \o SubSeq(Subscriber1, 4, 10)
      [] number = "0300-1234567" ->
            <<"0">> \o SubSeq(Subscriber1, 1, 3) \o <<"-">>
                \o SubSeq(Subscriber1, 4, 10)
      [] number = "+923219876543" -> <<"+", "9", "2">> \o Subscriber2
      [] number = "923219876543" -> <<"9", "2">> \o Subscriber2
      [] number = "+92 321 9876543" ->
            <<"+", "9", "2", " ">> \o SubSeq(Subscriber2, 1, 3) \o <<" ">>
                \o SubSeq(Subscriber2, 4, 10)

\* the string made of the characters cs
PhoneWord(cs) == CHOOSE s \in PhoneNumbers : PhoneChars(s) = cs

\* the character at place i, "" past the end
CharAt(cs, i) == IF i \in 1..Len(cs) THEN cs[i] ELSE ""

\* `re.sub(r"[^\d+]", "", phone)`
KeepsInPhone(c) == IsDigit(c) \/ c = "+"
CleanPhone(cs) == SelectSeq(cs, KeepsInPhone)

\* `[-\s]?` of PHONE_PATTERN at place i: the place after it
AfterSeparator(cs, i) == IF CharAt(cs, i) \in {"-", " "} THEN i + 1 ELSE i

\* `re.match(PHONE_PATTERN, cleaned)`
MatchesPhonePattern(cs) ==
    LET p0 == IF CharAt(cs, 1) = "+" THEN 2 ELSE 1
        p1 == AfterSeparator(cs, p0 + 2)
        p2 == AfterSeparator(cs, p1 + 3)
    IN /\ CharAt(cs, p0) = "9"
       /\ CharAt(cs, p0 + 1) = "2"
       /\ CharAt(cs, p1) = "3"
       /\ \A i \in (p1 + 1)..(p1 + 2) : IsDigit(CharAt(cs, i))
       /\ \A i \in p2..(p2 + 6) : IsDigit(CharAt(cs, i))
       /\ Len(cs) = p2 + 6

\* DataValidator.validate_phone_number, on the characters of the number
ValidatePhoneNumber(cs) ==
    /\ cs # <<>>
    /\ MatchesPhonePattern(CleanPhone(cs))

\* DataValidator.normalize_phone_number, on the characters of the number
NormalizePhoneNumber(cs) ==
    LET cleaned == CleanPhone(cs)
    IN IF CharAt(cleaned, 1) = "+"
       THEN cleaned
       ELSE IF CharAt(cleaned, 1) = "0"
            THEN <<"+", "9", "2">> \o Tail(cleaned)
            ELSE IF CharAt(cleaned, 1) = "9" /\ CharAt(cleaned, 2) = "2"
                 THEN <<"+">> \o cleaned
                 ELSE <<"+", "9", "2">> \o cleaned

\* the rows of the SELECT of get_vendor_numbers, ordered by vendor_id
VendorOrder == <<"V001", "V002">>
IsActiveWithNumber(table, v) ==
    /\ v \in DOMAIN table
    /\ table[v] = "active"
    /\ WhatsAppOf(v) # NoValue

\* the vendor goes into valid_vendors
IsValidVendor(table, v) ==
    /\ IsActiveWithNumber(table, v)
    /\ ValidatePhoneNumber(PhoneChars(WhatsAppOf(v)))

\* valid_vendors: vendor_id and normalized number of the rows that pass
RECURSIVE ValidVendorsFrom(_, _)
ValidVendorsFrom(table, i) ==
    IF i > Len(VendorOrder)
    THEN <<>>
    ELSE LET v == VendorOrder[i]
             rest == ValidVendorsFrom(table, i + 1)
         IN IF IsValidVendor(table, v)
            THEN <<[vendor_id |-> v,
                    number |-> PhoneWord(NormalizePhoneNumber(
                                   PhoneChars(WhatsAppOf(v))))]>> \o rest
            ELSE rest

\* the vendors get_vendor_numbers warns about
SkippedVendors(table) ==
    {v \in DOMAIN table :
        IsActiveWithNumber(table, v) /\ ~IsValidVendor(table, v)}

\* ProductionOrchestrator.get_vendor_numbers
GetVendorNumbers ==
    /\ c_pc = "idle"
    /\ c_warnings' = SkippedVendors(vendors)
    /\ LET valid_vendors == ValidVendorsFrom(vendors, 1)
       IN IF valid_vendors = <<>>
          THEN /\ c_pc' = "failed"
               /\ UNCHANGED c_vendors
          ELSE /\ c_pc' = "loaded"
               /\ c_vendors' = valid_vendors
    /\ UNCHANGED <<c_messages, c_count, c_from>>
    /\ UNCHANGED <<cbVars, retryVars, runVars, storeVars, queryVars,
                   parseVars, engineVars>>

\* `c.isalnum() or c in " -"`: numbers hold no letters
KeepsInName(c) == IsDigit(c) \/ c \in {" ", "-"}

\* `.strip()`
RECURSIVE StripLeft(_)
StripLeft(cs) ==
    IF cs # <<>> /\ Head(cs) = " " THEN StripLeft(Tail(cs)) ELSE cs

RECURSIVE StripRight(_)
StripRight(cs) ==
    IF cs # <<>> /\ cs[Len(cs)] = " "
    THEN StripRight(SubSeq(cs, 1, Len(cs) - 1))
    ELSE cs

\* vendor_clean of collect_daily_messages
CleanVendor(cs) ==
    LET kept == StripRight(StripLeft(SelectSeq(cs, KeepsInName)))
    IN [i \in 1..Len(kept) |-> IF kept[i] = " " THEN "_" ELSE kept[i]]

\* `.split("_")`: the parts, as character sequences
RECURSIVE SplitFrom(_, _, _)
SplitFrom(cs, i, part) ==
    IF i > Len(cs)
    THEN <<part>>
    ELSE IF cs[i] = "_"
         THEN <<part>> \o SplitFrom(cs, i + 1, <<>>)
         ELSE SplitFrom(cs, i + 1, Append(part, cs[i]))

\* `datetime.now().strftime("%Y%m%d_%H%M")`, taken once per collection
Timestamp == <<"20261101", "0900">>

\* the stem f"{timestamp}_{vendor_clean}" as process_whatsapp_messages
\* splits it on "_"
StemOf(vendor) ==
    LET parts == SplitFrom(CleanVendor(PhoneChars(vendor)), 1, <<>>)
    IN Timestamp \o [i \in 1..Len(parts) |-> PhoneWord(parts[i])]

\* what is written into the file: three header lines and the message
ContentOf(vendor, text) ==
    <<"Vendor:", vendor, "Time:", "2026-11-01T09:00:00", "====">> \o text

\* the messages of the chats: what a vendor wrote
MessageTexts == {<<"Inverter", "Rs", "95,000">>, <<"hello">>}
Unread == UNION {[1..n -> MessageTexts] : n \in 0..MaxUnread}

\* WhatsAppDriver.get_unread_messages: the messages of the chats of the
\* whitelist, chat after chat; a chat that is not found or has nothing
\* unread gives none
RECURSIVE UnreadMessagesFrom(_, _, _)
UnreadMessagesFrom(whitelist, chats, i) ==
    IF i > Len(whitelist)
    THEN <<>>
    ELSE LET w == whitelist[i]
             texts == chats[w.vendor_id]
         IN [k \in 1..Len(texts) |->
                [vendor |-> w.number, text |-> texts[k],
                 from |-> w.vendor_id]]
            \o UnreadMessagesFrom(whitelist, chats, i + 1)

\* `open(filepath, 'w')`: a file of that name is replaced
WriteFile(dir, file) ==
    LET same == {i \in 1..Len(dir) : dir[i].stem = file.stem}
    IN IF same = {}
       THEN Append(dir, file)
       ELSE [i \in 1..Len(dir) |-> IF i \in same THEN file ELSE dir[i]]

\* the loop of collect_daily_messages over the messages
RECURSIVE SaveMessages(_, _, _)
SaveMessages(dir, messages, i) ==
    IF i > Len(messages)
    THEN dir
    ELSE SaveMessages(
             WriteFile(dir, [stem |-> StemOf(messages[i].vendor),
                             text |-> ContentOf(messages[i].vendor,
                                                messages[i].text),
                             from |-> messages[i].from]),
             messages, i + 1)

\* MessageCollector.collect_daily_messages, as step1_collect_messages calls
\* it with the normalized numbers of the vendors
CollectDailyMessages(opened, chats) ==
    /\ c_pc = "loaded"
    /\ c_pc' = "collected"
    /\ IF ~opened
       THEN /\ c_count' = 0
            /\ UNCHANGED <<files, c_messages, c_from>>
       ELSE LET messages == UnreadMessagesFrom(c_vendors, chats, 1)
                before == [i \in 1..Len(files) |->
                              [stem |-> files[i].stem,
                               text |-> files[i].text,
                               from |-> c_from[i]]]
                after == SaveMessages(before, messages, 1)
            IN /\ c_messages' = messages
               /\ files' = [i \in 1..Len(after) |->
                               [stem |-> after[i].stem,
                                text |-> after[i].text]]
               /\ c_from' = [i \in 1..Len(after) |-> after[i].from]
               /\ c_count' = Len(messages)
    /\ UNCHANGED <<c_vendors, c_warnings>>
    /\ UNCHANGED <<e_pc, e_todo, processed_count, e_result, e_exc, e_pending,
                   e_failed, e_rows, e_runs, e_recorded>>
    /\ UNCHANGED <<cbVars, retryVars, runVars, storeVars, queryVars,
                   parseVars>>

\* the collector left alone
IdleCollect ==
    /\ c_pc = "idle"
    /\ c_vendors = <<>>
    /\ c_warnings = {}
    /\ c_messages = <<>>
    /\ c_count = NoCount
    /\ c_from = <<>>

-----------------------------------------------------------------------------
(* ProductionOrchestrator.run and main *)

NoExit == -1

Stages == <<"Vendors", "Collect", "Extract", "Report", "Deliver">>

\* the place of a stage in the pipeline
StageIdx(stage) == CHOOSE i \in 1..Len(Stages) : Stages[i] = stage

\* max_attempts of the RetryConfig decorating each step
MaxAttemptsOf(stage) ==
    CASE stage = "Collect" -> 3
      [] stage = "Extract" -> 2
      [] stage = "Report" -> 2
      [] stage = "Deliver" -> 3

\* what one attempt of a stage may do; a report may fail before anything is
\* written or after the summary file is written
AttemptOutcomes(stage) ==
    IF stage = "Report"
    THEN {"ok", "fail", "fail_partial", "interrupt"}
    ELSE {"ok", "fail", "interrupt"}

\* a step's except clause ends in `raise` (steps 1, 2, 4) or in
\* `return False, None, None` (step 3)
StepRaisesAlways(stage) == TRUE
StepRaises(stage) == stage # "Report"

\* `if summary_path and detailed_path` before step 4
DeliverGateOpen(sp, dp) == TRUE
DeliverGate(sp, dp) == sp /\ dp

\* the except clause of run() around step 1: the new workflow_success
CollectExhaustedFatal(ws) == FALSE
CollectExhausted(ws) == ws

\* main(): the exit code after run() returned `success`
ExitCodeOfByReports(success, summaryExists) == IF summaryExists THEN 0 ELSE 2
ExitCodeOf(success, summaryExists) ==
    IF success THEN 0 ELSE IF summaryExists THEN 1 ELSE 2

\* the action AuditLogger.log_access is given by each step
AuditAction(stage) ==
    CASE stage = "Collect" -> "MESSAGE_COLLECTION"
      [] stage = "Extract" -> "PRICE_EXTRACTION"
      [] stage = "Report" -> "REPORT_GENERATION"
      [] stage = "Deliver" -> "REPORT_SEND"

\* the audit entry a step writes at the end of an attempt
AuditEntryFailureUnlogged(stage, ok) == <<AuditAction(stage), "SUCCESS">>
AuditEntry(stage, ok) ==
    <<AuditAction(stage), IF ok THEN "SUCCESS" ELSE "FAILED">>

\* the message a step gives ExecutionContext.add_error when an attempt fails
ErrorEntry(stage) ==
    CASE stage = "Collect" -> "Message collection failed"
      [] stage = "Extract" -> "Price processing failed"
      [] stage = "Report" -> "Report generation failed"
      [] stage = "Deliver" -> "Report sending failed"

\* the except clause of run() around step 4: the new workflow_success
DeliverExhaustedFatal(ws) == FALSE
DeliverExhausted(ws) == ws

Event(kind, stage, n, out) == [ev |-> kind, stage |-> stage, n |-> n, out |-> out]

\* the variables no stage attempt writes
RunFrame == UNCHANGED <<run_result, exit_code, ec_status, ec_end_time,
                        completions>>

\* where run() goes after get_vendor_numbers: on to step 1, or through the
\* outer except clause to the finally clause
AfterVendorsAlwaysCollect(out) == "collect"
AfterVendors(out) == IF out = "ok" THEN "collect" ELSE "finally"

\* get_vendor_numbers and the outer except clause of run(); `bad` vendors
\* have an invalid phone number
LoadVendors(out, bad) ==
    /\ o_pc = "vendors"
    /\ o_trace' = Append(o_trace, Event("attempt", "Vendors", 1, out))
    /\ interrupted' = (interrupted \/ out = "interrupt")
    /\ IF out = "interrupt"
       THEN /\ o_exc' = "KeyboardInterrupt"
            /\ o_pc' = "finally"
            /\ UNCHANGED <<ec_errors, ec_warnings, o_log, workflow_success>>
       ELSE /\ ec_warnings' = ec_warnings
                \o [i \in 1..bad |-> "Invalid phone number for vendor"]
            /\ IF out = "ok"
               THEN /\ o_pc' = AfterVendors(out)
                    /\ UNCHANGED <<ec_errors, o_log, workflow_success, o_exc>>
               ELSE \* raised, caught by `except Exception` of run()
                    /\ ec_errors' = ec_errors \o <<"Vendor loading failed",
                                                   "Workflow critical error">>
                    /\ o_log' = Append(o_log,
                                       <<"ERROR", "CRITICAL ERROR in workflow">>)
                    /\ workflow_success' = FALSE
                    /\ o_pc' = AfterVendors(out)
                    /\ UNCHANGED o_exc
    /\ UNCHANGED <<o_sub, o_attempt, collect_success, message_count,
                   summary_path, detailed_path, audit, out_summary,
                   out_detailed>>
    /\ RunFrame
    /\ UNCHANGED <<cbVars, retryVars, storeVars, queryVars, parseVars,
                   engineVars, collectVars>>

\* one attempt of step1_collect_messages inside its retry wrapper, and the
\* try/except of run() around it; n messages are collected.  `swallowed`: an
\* interrupt arrived while get_unread_messages checked a chat's unread badge,
\* where a bare `except:` catches it and goes on to the next vendor
\* (whatsapp_automation.py:196-208).
Collect(out, n, swallowed) ==
    /\ o_pc = "collect" /\ o_sub = "call"
    /\ o_trace' = Append(o_trace, Event("attempt", "Collect", o_attempt, out))
    /\ interrupted' = (interrupted \/ out = "interrupt" \/ swallowed)
    /\ IF out = "interrupt"
       THEN /\ o_exc' = "KeyboardInterrupt"
            /\ o_pc' = "finally"
            /\ UNCHANGED <<o_sub, o_attempt, ec_errors, audit, o_log,
                           collect_success, message_count, workflow_success>>
       ELSE IF out = "ok"
       THEN /\ audit' = Append(audit, AuditEntry("Collect", TRUE))
            /\ collect_success' = TRUE
            /\ message_count' = n
            /\ o_pc' = "extract"
            /\ o_attempt' = 1
            /\ UNCHANGED <<o_sub, o_exc, ec_errors, o_log, workflow_success>>
       ELSE /\ ec_errors' = Append(ec_errors, ErrorEntry("Collect"))
            /\ audit' = Append(audit, AuditEntry("Collect", FALSE))
            /\ IF AttemptsRemain(o_attempt, MaxAttemptsOf("Collect"))
               THEN /\ o_sub' = "sleep"
                    /\ UNCHANGED <<o_pc, o_attempt, o_exc, o_log,
                                   collect_success, message_count,
                                   workflow_success>>
               ELSE \* the wrapper raises; run() logs a warning and goes on
                    /\ o_log' = Append(o_log,
                          <<"WARNING", "Message collection had errors">>)
                    /\ collect_success' = FALSE
                    /\ message_count' = 0
                    /\ workflow_success' = CollectExhausted(workflow_success)
                    /\ o_pc' = "extract"
                    /\ o_attempt' = 1
                    /\ UNCHANGED <<o_sub, o_exc>>
    /\ UNCHANGED <<ec_warnings, summary_path, detailed_path, out_summary,
                   out_detailed>>
    /\ RunFrame
    /\ UNCHANGED <<cbVars, retryVars, storeVars, queryVars, parseVars,
                   engineVars, collectVars>>

\* one attempt of step2_process_data inside its retry wrapper, and the
\* try/except of run() around it
Extract(out) ==
    /\ o_pc = "extract" /\ o_sub = "call"
    /\ o_trace' = Append(o_trace, Event("attempt", "Extract", o_attempt, out))
    /\ interrupted' = (interrupted \/ out = "interrupt")
    /\ IF out = "interrupt"
       THEN /\ o_exc' = "KeyboardInterrupt"
            /\ o_pc' = "finally"
            /\ UNCHANGED <<o_sub, o_attempt, ec_errors, audit, o_log,
                           workflow_success>>
       ELSE IF out = "ok"
       THEN /\ audit' = Append(audit, AuditEntry("Extract", TRUE))
            /\ o_pc' = "report"
            /\ o_attempt' = 1
            /\ UNCHANGED <<o_sub, o_exc, ec_errors, o_log, workflow_success>>
       ELSE /\ audit' = Append(audit, AuditEntry("Extract", FALSE))
            /\ IF AttemptsRemain(o_attempt, MaxAttemptsOf("Extract"))
               THEN /\ ec_errors' = Append(ec_errors, ErrorEntry("Extract"))
                    /\ o_sub' = "sleep"
                    /\ UNCHANGED <<o_pc, o_attempt, o_exc, o_log,
                                   workflow_success>>
               ELSE \* the wrapper raises; run() re-raises to its outer except
                    /\ ec_errors' = ec_errors \o <<ErrorEntry("Extract"),
                                                   "Workflow critical error">>
                    /\ o_log' = o_log \o
                          <<<<"ERROR", "Data processing critical failure">>,
                            <<"ERROR", "CRITICAL ERROR in workflow">>>>
                    /\ workflow_success' = FALSE
                    /\ o_pc' = "finally"
                    /\ UNCHANGED <<o_sub, o_attempt, o_exc>>
    /\ UNCHANGED <<ec_warnings, collect_success, message_count, summary_path,
                   detailed_path, out_summary, out_detailed>>
    /\ RunFrame
    /\ UNCHANGED <<cbVars, retryVars, storeVars, queryVars, parseVars,
                   engineVars, collectVars>>

\* where run() goes once step 3 has returned (success, sp, dp): step 4 when
\* the paths are there, else the finally clause
AfterReport(sp, dp) == IF DeliverGate(sp, dp) THEN "deliver" ELSE "finally"

\* one attempt of step3_generate_reports inside its retry wrapper, and the
\* code of run() around it up to the test before step 4
Report(out) ==
    /\ o_pc = "report" /\ o_sub = "call"
    /\ o_trace' = Append(o_trace, Event("attempt", "Report", o_attempt, out))
    /\ interrupted' = (interrupted \/ out = "interrupt")
    /\ IF out = "interrupt"
       THEN /\ o_exc' = "KeyboardInterrupt"
            /\ o_pc' = "finally"
            /\ UNCHANGED <<o_sub, o_attempt, ec_errors, audit, o_log,
                           workflow_success, summary_path, detailed_path,
                           out_summary, out_detailed>>
       ELSE IF out = "ok"
       THEN /\ out_summary' = TRUE
            /\ out_detailed' = TRUE
            /\ audit' = Append(audit, AuditEntry("Report", TRUE))
            /\ summary_path' = TRUE
            /\ detailed_path' = TRUE
            /\ o_pc' = AfterReport(TRUE, TRUE)
            /\ o_attempt' = 1
            /\ UNCHANGED <<o_sub, o_exc, ec_errors, o_log, workflow_success>>
       ELSE /\ out_summary' = (out_summary \/ out = "fail_partial")
            /\ audit' = Append(audit, AuditEntry("Report", FALSE))
            /\ UNCHANGED <<out_detailed, o_exc>>
            /\ IF ~StepRaises("Report")
               THEN \* step 3 returned (False, None, None): no retry
                    /\ ec_errors' = Append(ec_errors, ErrorEntry("Report"))
                    /\ workflow_success' = FALSE
                    /\ summary_path' = FALSE
                    /\ detailed_path' = FALSE
                    /\ o_pc' = AfterReport(FALSE, FALSE)
                    /\ o_log' = IF DeliverGate(FALSE, FALSE)
                                THEN o_log
                                ELSE Append(o_log,
                                  <<"ERROR", "Cannot send reports - paths missing">>)
                    /\ o_attempt' = 1
                    /\ UNCHANGED o_sub
               ELSE IF AttemptsRemain(o_attempt, MaxAttemptsOf("Report"))
               THEN /\ ec_errors' = Append(ec_errors, ErrorEntry("Report"))
                    /\ o_sub' = "sleep"
                    /\ UNCHANGED <<o_pc, o_attempt, o_log, workflow_success,
                                   summary_path, detailed_path>>
               ELSE /\ ec_errors' = ec_errors \o <<ErrorEntry("Report"),
                                                   "Workflow critical error">>
                    /\ o_log' = o_log \o
                          <<<<"ERROR", "Report generation critical failure">>,
                            <<"ERROR", "CRITICAL ERROR in workflow">>>>
                    /\ workflow_success' = FALSE
                    /\ o_pc' = "finally"
                    /\ UNCHANGED <<o_sub, o_attempt, summary_path,
                                   detailed_path>>
    /\ UNCHANGED <<ec_warnings, collect_success, message_count>>
    /\ RunFrame
    /\ UNCHANGED <<cbVars, retryVars, storeVars, queryVars, parseVars,
                   engineVars, collectVars>>

\* one attempt of step4_send_to_ceo inside its retry wrapper, and the
\* try/except of run() around it
Deliver(out) ==
    /\ o_pc = "deliver" /\ o_sub = "call"
    /\ o_trace' = Append(o_trace, Event("attempt", "Deliver", o_attempt, out))
    /\ interrupted' = (interrupted \/ out = "interrupt")
    /\ IF out = "interrupt"
       THEN /\ o_exc' = "KeyboardInterrupt"
            /\ o_pc' = "finally"
            /\ UNCHANGED <<o_sub, o_attempt, ec_errors, audit, o_log,
                           workflow_success>>
       ELSE IF out = "ok"
       THEN /\ audit' = Append(audit, AuditEntry("Deliver", TRUE))
            /\ o_pc' = "finally"
            /\ UNCHANGED <<o_sub, o_attempt, o_exc, ec_errors, o_log,
                           workflow_success>>
       ELSE /\ ec_errors' = Append(ec_errors, ErrorEntry("Deliver"))
            /\ audit' = Append(audit, AuditEntry("Deliver", FALSE))
            /\ UNCHANGED o_exc
            /\ IF AttemptsRemain(o_attempt, MaxAttemptsOf("Deliver"))
               THEN /\ o_sub' = "sleep"
                    /\ UNCHANGED <<o_pc, o_attempt, o_log, workflow_success>>
               ELSE \* the wrapper raises; run() logs a warning
                    /\ o_log' = Append(o_log,
                          <<"WARNING", "Failed to send report to CEO">>)
                    /\ workflow_success' = DeliverExhausted(workflow_success)
                    /\ o_pc' = "finally"
                    /\ UNCHANGED <<o_sub, o_attempt>>
    /\ UNCHANGED <<ec_warnings, collect_success, message_count, summary_path,
                   detailed_path, out_summary, out_detailed>>
    /\ RunFrame
    /\ UNCHANGED <<cbVars, retryVars, storeVars, queryVars, parseVars,
                   engineVars, collectVars>>

\* the stage whose wrapper is running
StageAt(pc) ==
    CASE pc = "collect" -> "Collect"
      [] pc = "extract" -> "Extract"
      [] pc = "report" -> "Report"
      [] pc = "deliver" -> "Deliver"

\* the retry wrapper's time.sleep between two attempts of a stage
StageSleep ==
    /\ o_sub = "sleep"
    /\ o_trace' = Append(o_trace,
                         Event("sleep", StageAt(o_pc), o_attempt, "slept"))
    /\ o_attempt' = o_attempt + 1
    /\ o_sub' = "call"
    /\ UNCHANGED interrupted
    /\ UNCHANGED <<o_pc, o_exc, workflow_success, collect_success,
                   message_count, summary_path, detailed_path, ec_errors,
                   ec_warnings, audit, o_log, out_summary, out_detailed>>
    /\ RunFrame
    /\ UNCHANGED <<cbVars, retryVars, storeVars, queryVars, parseVars,
                   engineVars, collectVars>>

\* an interrupt arrives during that sleep
StageSleepInterrupted ==
    /\ o_sub = "sleep"
    /\ o_trace' = Append(o_trace,
                         Event("sleep", StageAt(o_pc), o_attempt, "interrupt"))
    /\ o_exc' = "KeyboardInterrupt"
    /\ interrupted' = TRUE
    /\ o_pc' = "finally"
    /\ o_sub' = "call"
    /\ UNCHANGED <<o_attempt, workflow_success, collect_success,
                   message_count, summary_path, detailed_path, ec_errors,
                   ec_warnings, audit, o_log, out_summary, out_detailed>>
    /\ RunFrame
    /\ UNCHANGED <<cbVars, retryVars, storeVars, queryVars, parseVars,
                   engineVars, collectVars>>

\* ExecutionContext.mark_complete
MarkCompleteNoEnd(status) == [status |-> status, end_time |-> FALSE]
MarkComplete(status) == [status |-> status, end_time |-> TRUE]

\* the finally clause of run(), _generate_final_report, and main() up to
\* sys.exit
Finalise ==
    /\ o_pc = "finally"
    /\ LET status == IF workflow_success THEN "SUCCESS" ELSE "FAILURE"
           done == MarkComplete(status)
       IN /\ ec_status' = done.status
          /\ ec_end_time' = done.end_time
          /\ completions' = completions + 1
          /\ audit' = Append(audit, <<"EXECUTION_COMPLETE", done.status>>)
    /\ IF o_exc = "KeyboardInterrupt"
       THEN /\ run_result' = "raised"
            /\ exit_code' = 3
       ELSE /\ run_result' = IF workflow_success THEN "True" ELSE "False"
            /\ exit_code' = ExitCodeOf(workflow_success, out_summary)
    /\ o_pc' = "exited"
    /\ UNCHANGED <<o_sub, o_attempt, o_exc, workflow_success, collect_success,
                   message_count, summary_path, detailed_path, ec_errors,
                   ec_warnings, o_log, out_summary, out_detailed, o_trace,
                   interrupted>>
    /\ UNCHANGED <<cbVars, retryVars, storeVars, queryVars, parseVars,
                   engineVars, collectVars>>

\* ProductionOrchestrator() constructed and run() entered
RunEntered ==
    /\ o_pc = "vendors"
    /\ o_sub = "call"
    /\ o_attempt = 1
    /\ o_exc = "none"
    /\ workflow_success = TRUE
    /\ collect_success = FALSE
    /\ message_count = 0
    /\ summary_path = FALSE
    /\ detailed_path = FALSE
    /\ run_result = "none"
    /\ exit_code = NoExit
    /\ ec_status = "RUNNING"
    /\ ec_end_time = FALSE
    /\ ec_errors = <<>>
    /\ ec_warnings = <<>>
    /\ audit = << <<"EXECUTION_START", "INITIATED">> >>
    /\ o_log = <<>>
    /\ out_detailed = FALSE
    /\ o_trace = <<>>
    /\ completions = 0
    /\ interrupted = FALSE

\* the orchestrator left alone
IdleRun == RunEntered /\ out_summary = FALSE

\* the price extraction and the query left alone
IdlePrices == IdleQuery /\ IdleParse /\ IdleEngine

\* a daily_summary_*.txt of an earlier run may lie in the output directory
InitRun ==
    /\ IdleBreaker
    /\ IdleRetry
    /\ IdleStore
    /\ IdlePrices
    /\ IdleCollect
    /\ RunEntered
    /\ out_summary \in BOOLEAN

VendorsStep ==
    \E out \in AttemptOutcomes("Vendors") : \E bad \in 0..MaxInvalidPhones :
        LoadVendors(out, bad)
CollectStep ==
    \E out \in AttemptOutcomes("Collect") : \E n \in 0..MaxMessages :
        \E swallowed \in BOOLEAN : Collect(out, n, swallowed)
ExtractStep == \E out \in AttemptOutcomes("Extract") : Extract(out)
ReportStep == \E out \in AttemptOutcomes("Report") : Report(out)
DeliverStep == \E out \in AttemptOutcomes("Deliver") : Deliver(out)

NextRun ==
    \/ VendorsStep
    \/ CollectStep
    \/ ExtractStep
    \/ ReportStep
    \/ DeliverStep
    \/ StageSleep
    \/ StageSleepInterrupted
    \/ Finalise

SpecRun == InitRun /\ [][NextRun]_vars

-----------------------------------------------------------------------------
(* Specifications of the breaker, of the wrapper and of the store *)

InitRetry ==
    /\ IdleBreaker
    /\ IdleRun
    /\ IdleStore
    /\ IdlePrices
    /\ IdleCollect
    /\ r_max_attempts \in 1..MaxAttempts
    /\ r_initial_delay \in InitialDelays
    /\ r_max_delay \in MaxDelays
    /\ r_multiplier \in Multipliers
    /\ r_jitter \in BOOLEAN
    /\ r_plan \in [1..MaxAttempts -> OpOutcomes]
    /\ RetryEntered

NextRetry ==
    \/ RetryCall
    \/ RetrySleep
    \/ RetrySleepInterrupted

SpecRetry == InitRetry /\ [][NextRetry]_vars

InitCB ==
    NewBreaker /\ IdleRetry /\ IdleRun /\ IdleStore /\ IdlePrices /\ IdleCollect

SpecCB == InitCB /\ [][NextCB]_vars

InitStore ==
    /\ IdleBreaker
    /\ IdleRetry
    /\ IdleRun
    /\ IdlePrices
    /\ IdleCollect
    /\ foreign_keys \in BOOLEAN
    /\ vendors \in VendorTables
    /\ whatsapp_numbers = SampleNumbers
    /\ StoreOpened

NextStore ==
    \E vendor_id \in VendorArgs : \E category \in Categories :
        \E model \in Models : \E price \in Prices :
            InsertPrice(vendor_id, category, model, price)

SpecStore == InitStore /\ [][NextStore]_vars

\* a database that holds rows of today and of the day before
InitQuery ==
    /\ IdleBreaker
    /\ IdleRetry
    /\ IdleRun
    /\ IdleParse
    /\ IdleEngine
    /\ IdleCollect
    /\ foreign_keys = FALSE
    /\ vendors \in VendorTables
    /\ whatsapp_numbers = SampleNumbers
    /\ daily_prices \in PriceTables
    /\ db_call = <<>>
    /\ db_result = "none"
    /\ q_order \in Orders(Len(daily_prices))
    /\ q_calls = 0
    /\ min_prices = <<>>
    /\ s_min_prices = <<>>
    /\ s_done = FALSE
    /\ summary = <<>>

NextQuery == GetMinimumPricesToday \/ GenerateWhatsappSummary

SpecQuery == InitQuery /\ [][NextQuery]_vars

InitParse ==
    /\ IdleBreaker
    /\ IdleRetry
    /\ IdleRun
    /\ IdleStore
    /\ IdleQuery
    /\ IdleEngine
    /\ IdleCollect
    /\ p_text \in Texts
    /\ p_done = FALSE
    /\ p_result = <<>>

NextParse == ExtractCall

SpecParse == InitParse /\ [][NextParse]_vars

\* a directory of message files and an empty daily_prices table
InitEngine ==
    /\ IdleBreaker
    /\ IdleRetry
    /\ IdleRun
    /\ IdleQuery
    /\ IdleParse
    /\ IdleCollect
    /\ foreign_keys = FALSE
    /\ vendors \in VendorTables
    /\ whatsapp_numbers = SampleNumbers
    /\ StoreOpened
    /\ files \in Directories
    /\ e_pc = "idle"
    /\ e_todo = {}
    /\ processed_count = 0
    /\ e_result = NoCount
    /\ e_exc = "none"
    /\ e_pending = {}
    /\ e_failed = {}
    /\ e_rows = <<>>
    /\ e_runs = 0
    /\ e_recorded = <<>>

\* the loop takes the files in the order the glob yields them
FileStep == \E f \in DOMAIN files : \E fault \in Faults : ProcessFile(f, fault)

NextEngine ==
    \/ BeginProcess
    \/ FileStep
    \/ ReturnCount

SpecEngine == InitEngine /\ [][NextEngine]_vars

\* process_whatsapp_messages called again and again: a retry of the Extract
\* step, or the runs of later days
NextRerun ==
    \/ BeginProcess
    \/ FileStep
    \/ ReturnCount
    \/ BeginAgain

SpecRerun == InitEngine /\ [][NextRerun]_vars

\* what the whatsapp_number column may hold: the numbers as the sample data
\* has them, without the "+", with separators, in the local form (which
\* validate_phone_number rejects), and NULL
StoredNumbers ==
    {n \in [VendorIds -> PhoneNumbers \cup {NoValue}] :
        /\ n["V001"] \in {"+923001234567", "923001234567", "+92-300-1234567",
                          "0300-1234567"}
        /\ n["V002"] \in {"+923219876543", "923219876543", "+92 321 9876543",
                          NoValue}}

\* vendor loading and the Collect stage, on an empty message directory
InitCollect ==
    /\ IdleBreaker
    /\ IdleRetry
    /\ IdleRun
    /\ IdlePrices
    /\ IdleCollect
    /\ foreign_keys = FALSE
    /\ vendors \in VendorTables
    /\ whatsapp_numbers \in StoredNumbers
    /\ StoreOpened

\* WhatsApp Web opens or not; the chats hold any unread messages
CollectMessages ==
    \E opened \in BOOLEAN : \E chats \in [VendorIds -> Unread] :
        CollectDailyMessages(opened, chats)

NextCollect ==
    \/ GetVendorNumbers
    \/ CollectMessages

SpecCollect == InitCollect /\ [][NextCollect]_vars

-----------------------------------------------------------------------------
(* Claims about CircuitBreaker, checked under SpecCB *)

\* a step that is one call of CircuitBreaker.call
IsCall == cb_calls' = cb_calls + 1

\* the operation of the call just made raised an exception the breaker counts
Failed(res) == res \in RaisedClasses /\ IsInstance(res, expected_exception)

\* C1: from CLOSED, a failing call opens the breaker exactly when it brings
\* the number of failures in a row to failure_threshold; below that the
\* breaker is still CLOSED; the time of the opening failure is recorded as
\* last_failure_time.
C1_OpensExactlyAtThreshold ==
    [][(IsCall /\ cb_state = CLOSED /\ Failed(op_outcome'))
        => /\ (cb_state' = OPEN) <=> (consec' = failure_threshold)
           /\ (consec' < failure_threshold) => (cb_state' = CLOSED)
           /\ (cb_state' = OPEN) => (last_failure_time' = now')]_vars

C1_Witness ==
    /\ entry_state = CLOSED
    /\ cb_state = OPEN
    /\ failure_threshold >= 2
    /\ consec = failure_threshold
    /\ last_failure_time = now
    /\ now > 0

\* C2: a call made while OPEN, fewer than recovery_timeout seconds after
\* last_failure_time, is rejected without invoking the operation and leaves
\* state, failure_count and last_failure_time unchanged.
C2_RejectedWhileOpen ==
    [][(IsCall /\ cb_state = OPEN /\ last_failure_time # NoTime
               /\ now - last_failure_time < recovery_timeout)
        => /\ call_result' = "rejected"
           /\ op_calls' = op_calls
           /\ UNCHANGED <<cb_state, failure_count, last_failure_time>>]_vars

C2_Witness ==
    /\ call_result = "rejected"
    /\ entry_state = OPEN
    /\ cb_state = OPEN
    /\ now > last_failure_time
    /\ now - last_failure_time < recovery_timeout

\* C3: a call made while OPEN, at least recovery_timeout seconds after the
\* last failure, invokes the operation exactly once as a HALF_OPEN trial; a
\* successful trial ends CLOSED with failure counter 0; a failed trial ends
\* OPEN with last_failure_time refreshed to that failure, and the call that
\* follows a failed trial is rejected until recovery_timeout seconds have
\* passed from the refreshed time.
C3_HalfOpenTrial ==
    [][/\ (IsCall /\ cb_state = OPEN
                  /\ now - last_failure_time >= recovery_timeout)
          => /\ op_calls' = op_calls + 1
             /\ trial'
             /\ (op_outcome' = "ok")
                   => (cb_state' = CLOSED /\ failure_count' = 0)
             /\ Failed(op_outcome')
                   => (cb_state' = OPEN /\ last_failure_time' = now')
       /\ (IsCall /\ trial /\ Failed(op_outcome)
                  /\ now - last_failure_time < recovery_timeout)
          => (call_result' = "rejected" /\ op_calls' = op_calls)]_vars

C3_Witness ==
    /\ trial
    /\ Failed(op_outcome)
    /\ cb_state = OPEN
    /\ recovery_timeout > 0
    /\ last_failure_time = now
    /\ failure_count > failure_threshold

\* C4: every call that runs the operation as a HALF_OPEN trial leaves the
\* breaker CLOSED or OPEN, whatever the operation raises, so no call begins
\* with the breaker already HALF_OPEN.
C4_TrialNeverLeavesHalfOpen ==
    /\ trial => cb_state \in {CLOSED, OPEN}
    /\ entry_state # HALF_OPEN

\* C5: in CLOSED every successful call resets the failure counter to zero,
\* and as long as fewer than failure_threshold failures have ever occurred
\* in a row the breaker is CLOSED, however many failures occurred in total.
C5_ClosedWhileRunsShort ==
    [][/\ (IsCall /\ cb_state = CLOSED /\ op_outcome' = "ok")
          => (failure_count' = 0 /\ cb_state' = CLOSED)
       /\ (max_run' < failure_threshold) => (cb_state' = CLOSED)]_vars

C5_Witness ==
    /\ cb_state = CLOSED
    /\ max_run < failure_threshold
    /\ failure_threshold >= 2
    /\ total_failures >= failure_threshold
    /\ op_outcome = "ok"

-----------------------------------------------------------------------------
(* Claims about retry_with_backoff, checked under SpecRetry *)

\* the number of invocations the operation fails before it does anything else
LeadingFails ==
    CHOOSE k \in 0..MaxAttempts :
        /\ \A i \in 1..k : r_plan[i] = "fail"
        /\ (k = MaxAttempts \/ r_plan[k + 1] # "fail")

\* C6: with max_attempts = n >= 1 and an operation that fails on its first
\* k < n invocations and then succeeds, the operation is invoked exactly k+1
\* times, the wrapper returns the result of invocation k+1 at once, after
\* exactly k sleeps, and never raises.
C6_RetriesUntilSuccess ==
    LET k == LeadingFails
    IN (k < r_max_attempts /\ r_plan[k + 1] = "ok")
        => /\ r_invocations <= k + 1
           /\ Len(r_sleeps) <= k
           /\ r_pc # "raised"
           /\ (r_invocations = k + 1) => (r_pc = "returned")
           /\ (r_pc = "returned")
                 => /\ r_invocations = k + 1
                    /\ r_result = <<"value", k + 1>>
                    /\ Len(r_sleeps) = k

C6_Witness ==
    /\ r_max_attempts = 3
    /\ LeadingFails = 2
    /\ r_pc = "returned"
    /\ r_invocations = 3
    /\ r_result = <<"value", 3>>
    /\ Len(r_sleeps) = 2

\* C7: when the operation fails on every invocation it is invoked exactly
\* max_attempts times with exactly max_attempts-1 sleeps, none after the last
\* failed attempt, and the wrapper then raises the exception of the last
\* invocation itself.
C7_ExhaustionReraisesLast ==
    (\A i \in 1..r_max_attempts : r_plan[i] = "fail")
        => /\ r_invocations <= r_max_attempts
           /\ Len(r_sleeps) <= r_max_attempts - 1
           /\ r_pc # "returned"
           /\ (r_pc = "sleep") => (r_invocations < r_max_attempts)
           /\ (r_invocations = r_max_attempts) => (r_pc = "raised")
           /\ (r_pc = "raised")
                 => /\ r_invocations = r_max_attempts
                    /\ Len(r_sleeps) = r_max_attempts - 1
                    /\ r_result = <<"exception", r_max_attempts>>

C7_Witness ==
    /\ r_max_attempts = 3
    /\ r_pc = "raised"
    /\ r_invocations = 3
    /\ Len(r_sleeps) = 2
    /\ r_result = <<"exception", 3>>

\* C8 as stated: with max_attempts = 3 and any other settings, the delay
\* slept before the second attempt is at least initial_delay * 0.8 and at
\* most initial_delay * backoff_multiplier * 1.2.
C8_SecondAttemptDelayBounds ==
    (r_max_attempts = 3 /\ Len(r_sleeps) >= 1)
        => /\ 10 * r_sleeps[1] >= 8 * r_initial_delay
           /\ 20 * r_sleeps[1] <= 12 * r_initial_delay * r_multiplier

\* C8 amended: with max_attempts = 3 the delay slept before the second
\* attempt is at least min(initial_delay * 0.8, max_delay) and at most
\* min(initial_delay * 1.2, max_delay); it lies between initial_delay * 0.8
\* and initial_delay * backoff_multiplier * 1.2 whenever
\* max_delay >= initial_delay * 0.8 and backoff_multiplier >= 1.
C8_SecondAttemptDelayCapped ==
    (r_max_attempts = 3 /\ Len(r_sleeps) >= 1)
        => /\ 10 * r_sleeps[1] >= Min2(8 * r_initial_delay, 10 * r_max_delay)
           /\ 10 * r_sleeps[1] <= Min2(12 * r_initial_delay, 10 * r_max_delay)
           /\ (10 * r_max_delay >= 8 * r_initial_delay /\ r_multiplier >= 2)
                 => /\ 10 * r_sleeps[1] >= 8 * r_initial_delay
                    /\ 20 * r_sleeps[1]
                          <= 12 * r_initial_delay * r_multiplier

C8_Witness ==
    /\ r_max_attempts = 3
    /\ Len(r_sleeps) >= 1
    /\ r_jitter
    /\ r_max_delay < r_initial_delay
    /\ r_sleeps[1] = r_max_delay

\* initial_delay * backoff_multiplier^(k-1), the multiplier in halves
BackoffDelay(k) ==
    (r_initial_delay * (r_multiplier ^ (k - 1))) \div (2 ^ (k - 1))

\* the jitter factors of the policy, in tenths: 1.0 without jitter, 0.8 to
\* 1.2 with it
JitterRange == IF r_jitter THEN 8..12 ELSE {10}

\* C28: the sleep before attempt k+1 is
\* min(initial_delay * backoff_multiplier^(k-1) * j, max_delay) with j = 1
\* when jitter is disabled and j in [0.8, 1.2] when it is enabled; no sleep
\* exceeds max_delay, and with jitter disabled and backoff_multiplier >= 1
\* successive sleeps do not decrease.
C28_BackoffSchedule ==
    /\ Len(r_sleeps) < r_max_attempts
    /\ \A k \in 1..Len(r_sleeps) :
          /\ \E j \in JitterRange :
                r_sleeps[k] = Min2((BackoffDelay(k) * j) \div 10, r_max_delay)
          /\ r_sleeps[k] <= r_max_delay
    /\ (~r_jitter /\ r_multiplier >= 2) =>
          \A k \in 1..(Len(r_sleeps) - 1) : r_sleeps[k] <= r_sleeps[k + 1]

\* two sleeps with jitter and multiplier 2.0, the second longer than the
\* first and below max_delay
C28_Witness ==
    /\ Len(r_sleeps) = 2
    /\ r_jitter
    /\ r_multiplier = 4
    /\ r_sleeps[1] < r_sleeps[2]
    /\ r_sleeps[2] < r_max_delay
    /\ r_sleeps[2] # BackoffDelay(2)

-----------------------------------------------------------------------------
(* Claims about ProductionOrchestrator.run, checked under SpecRun *)

\* the places in o_trace of the attempts of a stage
Attempts(stage) ==
    {i \in 1..Len(o_trace) :
        o_trace[i].ev = "attempt" /\ o_trace[i].stage = stage}

\* the places in o_trace of the successful attempts of a stage
Successes(stage) == {i \in Attempts(stage) : o_trace[i].out = "ok"}

\* every attempt of the stage failed and its retries are exhausted
Exhausted(stage) ==
    \A n \in 1..MaxAttemptsOf(stage) :
        \E i \in Attempts(stage) :
            o_trace[i].n = n /\ o_trace[i].out = "fail"

\* C9: stages are attempted only in the order Collect, Extract, Report,
\* Deliver, every attempt and retry sleep of a stage coming before any attempt
\* of a later stage; Extract is attempted once Collect has succeeded or
\* exhausted its retries; Report is attempted only after Extract succeeded and
\* Deliver only after Report succeeded.
C9_StagesSequentialAndGated ==
    /\ \A i, j \in 1..Len(o_trace) :
          i < j => StageIdx(o_trace[i].stage) <= StageIdx(o_trace[j].stage)
    /\ (Successes("Collect") # {} \/ Exhausted("Collect"))
          => \/ Attempts("Extract") # {}
             \/ (o_pc = "extract" /\ o_sub = "call" /\ o_attempt = 1)
    /\ \A j \in Attempts("Report") :
          \E i \in Successes("Extract") : i < j
    /\ \A j \in Attempts("Deliver") :
          \E i \in Successes("Report") : i < j

C9_Witness ==
    /\ o_pc = "exited"
    /\ Exhausted("Collect")
    /\ Cardinality(Attempts("Extract")) = 2
    /\ Successes("Extract") # {}
    /\ Successes("Report") # {}
    /\ Cardinality(Attempts("Deliver")) = 3
    /\ Successes("Deliver") # {}

\* C10: a run in which Collect fails on every attempt while Extract, Report
\* and Deliver succeed ends with ExecutionContext status SUCCESS; the
\* collection failure is logged as a warning of the run, which went on with
\* zero collected messages.
C10_CollectFailureIsNotFatal ==
    (/\ o_pc = "exited"
     /\ Exhausted("Collect")
     /\ Successes("Extract") # {}
     /\ Successes("Report") # {}
     /\ Successes("Deliver") # {})
        => /\ ec_status = "SUCCESS"
           /\ run_result = "True"
           /\ \E i \in 1..Len(o_log) :
                 o_log[i] = <<"WARNING", "Message collection had errors">>
           /\ message_count = 0
           /\ ~collect_success

C10_Witness ==
    /\ o_pc = "exited"
    /\ Exhausted("Collect")
    /\ Successes("Extract") # {}
    /\ Successes("Report") # {}
    /\ Successes("Deliver") # {}
    /\ ec_status = "SUCCESS"
    /\ Len(ec_errors) = 3

\* the run ended without an interrupt reaching main()
EndedNormally == o_pc = "exited" /\ run_result # "raised"

\* the first attempt of the stage failed
FirstFailed(stage) ==
    \E i \in Attempts(stage) :
        o_trace[i].n = 1 /\ o_trace[i].out \in {"fail", "fail_partial"}

\* C11: a run in which Extract exhausts its retries ends as a critical
\* failure with exit code 2, whatever the output directory held before the
\* run, and with neither Report nor Deliver attempted.
C11_ExtractExhaustionIsCritical ==
    (o_pc = "exited" /\ Exhausted("Extract"))
        => /\ exit_code = 2
           /\ ec_status = "FAILURE"
           /\ Attempts("Report") = {}
           /\ Attempts("Deliver") = {}

\* C12: a Deliver stage that fails on every attempt does not alter the
\* success of the run: run() returns True and the ExecutionContext is
\* finalised with status SUCCESS, the failure being logged as a warning.
C12_DeliverFailureIsNotFatal ==
    (o_pc = "exited" /\ Exhausted("Deliver"))
        => /\ Successes("Extract") # {}
           /\ Successes("Report") # {}
           /\ run_result = "True"
           /\ ec_status = "SUCCESS"
           /\ \E i \in 1..Len(o_log) :
                 o_log[i] = <<"WARNING", "Failed to send report to CEO">>

C12_Witness ==
    /\ o_pc = "exited"
    /\ Exhausted("Deliver")
    /\ Successes("Collect") # {}
    /\ run_result = "True"
    /\ ec_status = "SUCCESS"
    /\ Len(ec_errors) = 3

\* C13: when the reports were generated in the run, the exit code is 0 only
\* if Collect and Deliver succeeded as well, and 1 if Collect or Deliver
\* failed.
C13_PartialSuccessExitsOne ==
    (EndedNormally /\ Successes("Report") # {})
        => exit_code = IF Successes("Collect") # {} /\ Successes("Deliver") # {}
                       THEN 0
                       ELSE 1

\* C14: a run whose Report stage does not complete is a critical failure:
\* Deliver is not attempted, the ExecutionContext ends with status FAILURE
\* and the exit code is 2, also when a summary file of an earlier run or a
\* partly written report is in the output directory.
C14_ReportFailureIsCritical ==
    (EndedNormally /\ Attempts("Report") # {} /\ Successes("Report") = {})
        => /\ Attempts("Deliver") = {}
           /\ ec_status = "FAILURE"
           /\ exit_code = 2

\* C15: once an external interrupt has arrived, during a stage attempt or a
\* retry sleep, no further stage attempt or retry is made and the process
\* exits with code 3.
C15_InterruptStopsRun ==
    interrupted => /\ o_pc \in {"finally", "exited"}
                   /\ (o_pc = "exited" => exit_code = 3)

\* C16: a run cut short by an external interrupt is never finalised with
\* status SUCCESS, nor written to the audit log as a successfully completed
\* execution.
C16_InterruptedNeverSuccess ==
    (o_pc = "exited" /\ o_exc = "KeyboardInterrupt")
        => /\ ec_status # "SUCCESS"
           /\ \A i \in 1..Len(audit) :
                 audit[i] # <<"EXECUTION_COMPLETE", "SUCCESS">>

\* C17: an Extract or Report stage whose first attempt fails is attempted a
\* second time before the run is declared failed.
C17_CriticalStagesRetried ==
    \A stage \in {"Extract", "Report"} :
        (EndedNormally /\ FirstFailed(stage))
            => \E j \in Attempts(stage) : o_trace[j].n = 2

\* C18: mark_complete is invoked exactly once on every path through run(),
\* after the last stage attempt; the status is RUNNING with end_time unset in
\* every state before it, and SUCCESS or FAILURE with end_time set in every
\* state after it.
C18_FinalisedExactlyOnce ==
    /\ [](/\ o_pc # "exited"
             => completions = 0 /\ ec_status = "RUNNING" /\ ~ec_end_time
          /\ o_pc = "exited"
             => /\ completions = 1
                /\ ec_status \in {"SUCCESS", "FAILURE"}
                /\ ec_end_time)
    /\ [][/\ completions' # completions
             => o_pc = "finally" /\ completions' = completions + 1
          /\ completions >= 1 => o_trace' = o_trace]_vars

C18_Witness ==
    /\ o_pc = "exited"
    /\ o_exc = "KeyboardInterrupt"
    /\ Attempts("Deliver") # {}
    /\ completions = 1
    /\ ec_end_time

\* s is an initial segment of t
IsPrefix(s, t) == Len(s) <= Len(t) /\ \A i \in 1..Len(s) : s[i] = t[i]

\* the attempts of the four stages that ran to their end, in order
CompletedAttempts ==
    LET Done(e) == /\ e.ev = "attempt"
                   /\ e.stage \in {"Collect", "Extract", "Report", "Deliver"}
                   /\ e.out # "interrupt"
    IN SelectSeq(o_trace, Done)

-----------------------------------------------------------------------------
(* Claims about DatabaseManager, checked under SpecStore *)

\* the vendor exists in the vendors table with status active
ActiveVendor(v) == v \in DOMAIN vendors /\ vendors[v] = "active"

\* C20: insert_price fails with a storage error, and appends no row, when
\* vendor_id is not an existing vendor with status active; every row of
\* daily_prices belongs to an existing active vendor.
C20_RecordRequiresActiveVendor ==
    /\ \A i \in 1..Len(daily_prices) : ActiveVendor(daily_prices[i].vendor_id)
    /\ (db_call # <<>> /\ ~ActiveVendor(db_call[1].vendor_id))
          => db_result = "IntegrityError"

-----------------------------------------------------------------------------
(* Claims about AutomationEngine.process_whatsapp_messages, checked under *)
(* SpecEngine *)

\* C21: every row the extraction appends to daily_prices has a price
\* greater than zero; a numeral that cleans to zero is dropped, not stored.
C21_StoredPricesPositive ==
    \A i \in 1..Len(daily_prices) : daily_prices[i].price > 0

-----------------------------------------------------------------------------
(* Claims about DatabaseManager.get_minimum_prices_today, checked under *)
(* SpecQuery *)

\* the (category, model, company) triple of a quote
QuoteKey(q) == <<q.product_category, q.product_model, q.product_company>>

\* the places of the rows of daily_prices dated today
TodayRows == {i \in 1..Len(daily_prices) : daily_prices[i].date = Today}

\* the places of today's rows of a triple
RowsOf(key) == {i \in TodayRows : GroupKey(daily_prices[i]) = key}

\* the places in the scan of the rows of a triple that the join yields at
\* the given price
ScannedAt(key, price) ==
    {k \in 1..Len(q_order) :
        /\ q_order[k] \in RowsOf(key)
        /\ daily_prices[q_order[k]].vendor_id \in DOMAIN vendors
        /\ daily_prices[q_order[k]].price = price}

\* C22: the query returns exactly one quote for each distinct (category,
\* model, company) triple among the rows of the date, its min_price being the
\* least price of those rows, and no quote for any other triple; rows of
\* other dates contribute nothing.
C22_OneQuotePerProduct ==
    q_calls >= 1 =>
        /\ \A i \in TodayRows :
              \E k \in 1..Len(min_prices) :
                  /\ QuoteKey(min_prices[k]) = GroupKey(daily_prices[i])
                  /\ min_prices[k].min_price <= daily_prices[i].price
                  /\ \A l \in 1..Len(min_prices) :
                        QuoteKey(min_prices[l]) = QuoteKey(min_prices[k])
                            => l = k
        /\ \A k \in 1..Len(min_prices) :
              \E i \in RowsOf(QuoteKey(min_prices[k])) :
                  daily_prices[i].price = min_prices[k].min_price

\* C23: the vendor and the unit of a quote are those of a row of the
\* quote's triple, dated today, whose price is exactly min_price, and whose
\* vendor is in the vendors table.
C23_QuoteFromMinimumRow ==
    q_calls >= 1 =>
        \A k \in 1..Len(min_prices) :
            \E i \in RowsOf(QuoteKey(min_prices[k])) :
                /\ daily_prices[i].price = min_prices[k].min_price
                /\ daily_prices[i].vendor_id = min_prices[k].vendor_id
                /\ daily_prices[i].unit = min_prices[k].unit
                /\ daily_prices[i].vendor_id \in DOMAIN vendors

\* a quote was computed from two rows of different vendors, units and prices
C23_Witness ==
    /\ q_calls >= 1
    /\ \E k \in 1..Len(min_prices) :
          \E i, j \in RowsOf(QuoteKey(min_prices[k])) :
              /\ daily_prices[i].price < daily_prices[j].price
              /\ daily_prices[i].vendor_id # daily_prices[j].vendor_id
              /\ daily_prices[i].unit # daily_prices[j].unit
              /\ {daily_prices[i].vendor_id, daily_prices[j].vendor_id}
                    \subseteq DOMAIN vendors
              /\ min_prices[k].vendor_id = daily_prices[i].vendor_id

\* C24: the quotes come ordered by category and, within a category, by
\* min_price ascending; the quotes of one category are contiguous.
C24_OrderedByCategoryThenPrice ==
    q_calls >= 1 =>
        /\ \A i, j \in 1..Len(min_prices) :
              i < j =>
                  /\ CategoryRank(min_prices[i].product_category)
                        <= CategoryRank(min_prices[j].product_category)
                  /\ min_prices[i].product_category
                        = min_prices[j].product_category
                        => min_prices[i].min_price <= min_prices[j].min_price
        /\ \A i, j, k \in 1..Len(min_prices) :
              (i < j /\ j < k /\ min_prices[i].product_category
                                    = min_prices[k].product_category)
                  => min_prices[j].product_category
                        = min_prices[i].product_category

\* two quotes of one category at different prices, the dearer one coming
\* from the row with the lower price_id
C24_Witness ==
    /\ q_calls >= 1
    /\ Len(min_prices) = 2
    /\ min_prices[1].product_category = min_prices[2].product_category
    /\ min_prices[1].min_price < min_prices[2].min_price
    /\ Len(daily_prices) = 2
    /\ daily_prices[1].price > daily_prices[2].price

\* every quote carries the vendor of the first scanned row of its triple at
\* the minimum price
FirstScannedWins ==
    q_calls >= 1 =>
        \A k \in 1..Len(min_prices) :
            LET tied == ScannedAt(QuoteKey(min_prices[k]),
                                  min_prices[k].min_price)
            IN \E f \in tied :
                  /\ \A t \in tied : f <= t
                  /\ min_prices[k].vendor_id
                        = daily_prices[q_order[f]].vendor_id

\* a call after the first returns, for every triple, the vendor and the
\* price the call before it returned
RepeatedCallAgrees ==
    (q_calls >= 1 /\ q_calls' = q_calls + 1) =>
        /\ Len(min_prices') = Len(min_prices)
        /\ \A k \in 1..Len(min_prices) :
              \E l \in 1..Len(min_prices') :
                  /\ QuoteKey(min_prices'[l]) = QuoteKey(min_prices[k])
                  /\ min_prices'[l].vendor_id = min_prices[k].vendor_id
                  /\ min_prices'[l].min_price = min_prices[k].min_price

-----------------------------------------------------------------------------
(* Claims about PriceExtractor.extract_from_text, checked under SpecParse *)

\* the text of the call in lower case
LowerText == [i \in 1..Len(p_text) |-> Lower(p_text[i])]

\* no price pattern matches anywhere in the text
NoPriceNumeral ==
    \A p \in 1..4 :
        \A i \in 1..(Len(p_text) - 1) : MatchAt(p, LowerText, i) = <<>>

\* the text holds no keyword of any category
NoCategoryKeyword ==
    \A c \in 1..Len(CATEGORIES) :
        \A k \in 1..Len(CATEGORIES[c].keywords) :
            ~Contains(LowerText, CATEGORIES[c].keywords[k])

\* C26: extract_from_text returns a list for every text; the list is empty
\* for a text without a price numeral, and empty for a text that holds a
\* price numeral but no category keyword.
C26_EmptyWithoutPriceOrCategory ==
    p_done =>
        /\ DOMAIN p_result = 1..Len(p_result)
        /\ NoPriceNumeral => p_result = <<>>
        /\ NoCategoryKeyword => p_result = <<>>

\* a text with a price numeral and no category keyword gave no candidate
C26_Witness ==
    /\ p_done
    /\ ~NoPriceNumeral
    /\ NoCategoryKeyword
    /\ p_result = <<>>

\* C27: a numeral matched by more than one pattern yields one candidate;
\* the sample message "Inverter Growatt 5KW Price: Rs 65,000 per piece"
\* yields exactly one candidate: Inverter, Growatt, 65000.0, per piece.
C27_SampleTextOneCandidate ==
    (p_done /\ p_text = SampleText) =>
        p_result = << [category |-> "Inverter", model |-> "Growatt",
                       price |-> 65000 * PerRupee, unit |-> "per piece"] >>

\* the name of the file f when process_whatsapp_messages was entered
StemAtStart(f) ==
    IF f \in e_pending /\ ~IsPending(files[f])
    THEN Tail(files[f].stem)
    ELSE files[f].stem

\* the rows of daily_prices of a vendor
RowsOfVendor(v) ==
    LET From(r) == r.vendor_id = v
    IN SelectSeq(daily_prices, From)

\* C29: after a call of process_whatsapp_messages that returns, every file
\* that was pending when it was entered is marked as processed, whatever it
\* yielded and whoever sent it.
C29_EveryPendingFileConsumed ==
    e_pc = "returned" => \A f \in e_pending : ~IsPending(files[f])

\* C30: an exception raised while one file is read, parsed, recorded or
\* renamed does not leave the loop: the call does not raise it, and every
\* other pending file of an active vendor has its candidates recorded, in
\* their order, and is marked as processed.
C30_FailureConfinedToOneFile ==
    /\ e_pc = "raised" => ~IsInstance(e_exc, "Exception")
    /\ e_pc = "returned" =>
          \A f \in e_pending \ e_failed :
              LET file == [stem |-> StemAtStart(f), text |-> files[f].text]
                  vendor == VendorOfFile(vendors, file)
              IN vendor # NoValue =>
                    /\ ~IsPending(files[f])
                    /\ e_rows[f]
                          = RowsOfItems(vendor, ExtractFromText(file.text))
                    /\ RowsOfVendor(vendor) = e_rows[f]

\* the call returned after an exception on one file, and the candidates of
\* another file are recorded
C30_Witness ==
    /\ e_pc = "returned"
    /\ e_failed # {}
    /\ \E f \in e_pending \ e_failed :
          /\ Len(e_rows[f]) = 2
          /\ ~IsPending(files[f])
          /\ RowsOfVendor(e_rows[f][1].vendor_id) = e_rows[f]

-----------------------------------------------------------------------------
(* Further claims about CircuitBreaker, checked under SpecCB *)

\* the fields of the breaker agree: CLOSED below the threshold, OPEN and
\* HALF_OPEN at or above it with a failure time recorded
StateAgreesWithCount ==
    /\ cb_state = CLOSED => failure_count < failure_threshold
    /\ cb_state \in {OPEN, HALF_OPEN} =>
          /\ failure_count >= failure_threshold
          /\ last_failure_time # NoTime

\* failure_count goes down only to 0, in a call whose operation succeeded
CountFallsOnlyOnSuccess ==
    failure_count' < failure_count =>
        /\ failure_count' = 0
        /\ cb_calls' = cb_calls + 1
        /\ op_outcome' = "ok"

\* C33: for a breaker that expects Exception, in every state CLOSED implies
\* failure_count < failure_threshold, and OPEN or HALF_OPEN implies
\* failure_count >= failure_threshold with last_failure_time set;
\* failure_count never decreases except by the reset to 0 on a success.
C33_StateInvariant ==
    /\ [](expected_exception = "Exception" => StateAgreesWithCount)
    /\ [][expected_exception = "Exception" => CountFallsOnlyOnSuccess]_vars

\* a breaker that opened and later closed again on a successful trial,
\* its count back to 0
C33_Witness ==
    /\ expected_exception = "Exception"
    /\ trial
    /\ op_outcome = "ok"
    /\ cb_state = CLOSED
    /\ failure_count = 0
    /\ max_run >= failure_threshold
    /\ last_failure_time # NoTime

\* the operation of the last call raised an exception the breaker counts
LastCallFailed ==
    /\ op_outcome \in RaisedClasses
    /\ IsInstance(op_outcome, expected_exception)

\* C38: a failure that leaves the breaker CLOSED propagates the operation's
\* own exception; the failure that trips the breaker, and every failed
\* HALF_OPEN trial, is raised as a new generic exception, as a rejected call
\* is.
C38_FailurePropagation ==
    /\ (LastCallFailed /\ cb_state = CLOSED) => call_result = "original"
    /\ (LastCallFailed /\ cb_state = OPEN) => call_result = "generic_open"
    /\ (LastCallFailed /\ trial) => call_result = "generic_open"
    /\ LastCallFailed => cb_state \in {CLOSED, OPEN}
    /\ (cb_calls > 0 /\ op_outcome = "not_invoked") => call_result = "rejected"

\* a failed HALF_OPEN trial was raised as a generic exception after an
\* earlier failure had left the breaker CLOSED
C38_Witness ==
    /\ LastCallFailed
    /\ trial
    /\ call_result = "generic_open"
    /\ failure_threshold >= 2
    /\ failure_count > failure_threshold

-----------------------------------------------------------------------------
(* Further claims about ProductionOrchestrator.run, checked under SpecRun *)

\* an attempt of the stage ended well
StageSucceeded(stage) ==
    \E i \in 1..Len(o_trace) :
        /\ o_trace[i].ev = "attempt"
        /\ o_trace[i].stage = stage
        /\ o_trace[i].out = "ok"

\* vendor loading, Extract and Report all succeeded
CriticalStagesSucceeded ==
    /\ StageSucceeded("Vendors")
    /\ StageSucceeded("Extract")
    /\ StageSucceeded("Report")

VendorsFailed ==
    \E i \in 1..Len(o_trace) :
        o_trace[i].stage = "Vendors" /\ o_trace[i].out = "fail"

\* C37: when loading the vendors fails or finds no active vendor with a
\* valid phone number, run() attempts none of the four stages, records the
\* error, and finalises the ExecutionContext with status FAILURE.
C37_VendorLoadingIsCritical ==
    VendorsFailed =>
        /\ \A i \in 1..Len(o_trace) : o_trace[i].stage = "Vendors"
        /\ o_pc \in {"finally", "exited"}
        /\ \E k \in 1..Len(ec_errors) : ec_errors[k] = "Vendor loading failed"
        /\ ~workflow_success
        /\ o_pc = "exited" =>
              /\ ec_status = "FAILURE"
              /\ ec_end_time
              /\ run_result = "False"

\* a run finalised after no vendor had a valid phone number, with a summary
\* of an earlier day in the output directory
C37_Witness ==
    /\ VendorsFailed
    /\ o_pc = "exited"
    /\ Len(ec_warnings) >= 1
    /\ out_summary
    /\ ec_status = "FAILURE"
    /\ Len(o_trace) = 1

-----------------------------------------------------------------------------
(* Claims about ReportGenerator.generate_whatsapp_summary, checked under *)
(* SpecQuery *)

\* the places in the summary of the offers of a category
OffersOf(category) ==
    {k \in 1..Len(summary) : summary[k].category = category}

\* the places in the argument of the quotes of a category
QuotesOf(category) ==
    {i \in 1..Len(s_min_prices) :
        s_min_prices[i].product_category = category}

\* C31: the short summary shows, for each category among the quotes it is
\* given, exactly one offer, and that offer is a quote of the category with
\* the lowest min_price, with its vendor and product, the price in whole
\* rupees; it shows no other offer.
C31_SummaryShowsLowestPerCategory ==
    s_done =>
        /\ \A i \in 1..Len(s_min_prices) :
              Cardinality(OffersOf(s_min_prices[i].product_category)) = 1
        /\ \A k \in 1..Len(summary) :
              \E i \in QuotesOf(summary[k].category) :
                  /\ \A j \in QuotesOf(summary[k].category) :
                        s_min_prices[i].min_price <= s_min_prices[j].min_price
                  /\ summary[k].vendor_id = s_min_prices[i].vendor_id
                  /\ summary[k].product_model = s_min_prices[i].product_model
                  /\ summary[k].product_company
                        = s_min_prices[i].product_company
                  /\ summary[k].price = s_min_prices[i].min_price \div PerRupee

\* a summary of two quotes of one category at different prices, from
\* different vendors
C31_Witness ==
    /\ s_done
    /\ Len(s_min_prices) = 2
    /\ s_min_prices[1].product_category = s_min_prices[2].product_category
    /\ s_min_prices[1].min_price < s_min_prices[2].min_price
    /\ s_min_prices[1].vendor_id # s_min_prices[2].vendor_id
    /\ Len(summary) = 1
    /\ summary[1].vendor_id = s_min_prices[1].vendor_id


-----------------------------------------------------------------------------
(* Claims about repeated calls of process_whatsapp_messages, checked under
   SpecRerun *)

\* the candidates extract_from_text finds in the text of file f
CandidatesOf(f) == ExtractFromText(files[f].text)

\* C34: over any sequence of calls of process_whatsapp_messages, calls in
\* which insert_price or the rename fails included, no file contributes more
\* rows to daily_prices than extract_from_text finds candidates in it: every
\* candidate of a message is recorded at most once
C34_RecordedAtMostOnce ==
    \A f \in DOMAIN e_recorded :
        Len(e_recorded[f]) <= Len(CandidatesOf(f))

\* what the code does keep: a file that was renamed to processed_*
\* before a call began gets no row in that call
ConsumedNeverRecordedAgain ==
    \A f \in DOMAIN e_rows : f \notin e_pending => e_rows[f] = <<>>

-----------------------------------------------------------------------------
(* Claims about the Collect stage, checked under SpecCollect *)

\* C35: every message collected from an active vendor with a valid stored
\* whatsapp_number is attributed by Extract to that vendor: the token
\* Collect writes into the file name is the token Extract reads back and
\* looks up in whatsapp_number
C35_SenderRoundTrips ==
    c_pc = "collected" =>
        \A f \in DOMAIN files :
            VendorOfFile(vendors, files[f]) = c_from[f]

\* C36: N messages collected in one attempt, several of one vendor
\* included, are N distinct pending files, none overwritten, and the count
\* returned is the number of pending files added
C36_EveryMessageStored ==
    c_pc = "collected" =>
        /\ Len(files) = Len(c_messages)
        /\ Len(files) = c_count
        /\ \A f \in DOMAIN files : IsPending(files[f])

=============================================================================
